---- MODULE Spec2Model ----
(***************************************************************************)
(* Weather MCP server: the result cache (weather/cache.py), the upstream    *)
(* client (weather/provider.py) and the tool dispatcher (server_remote.py). *)
(*                                                                         *)
(* Numbers.  A coordinate is a float.  The model carries the floats that    *)
(* are whole multiples of 2^-16 degree, as that whole number: each of them  *)
(* is exactly a double, so f"{x:.4f}" (round to nearest, ties to even, of   *)
(* the exact value) is integer arithmetic.  Time is time.time() in whole    *)
(* ticks.  A text is a record; an Optional is <<>> (None) or <<v>>.         *)
(***************************************************************************)
EXTENDS Integers, Sequences, FiniteSets, TLC

VARIABLES now, cache, lastSet, cacheOp, call, invoked, stores, startup, lazy

vars == <<now, cache, lastSet, cacheOp, call, invoked, stores, startup, lazy>>

(***************************************************************************)
(* Bounds of the model.                                                    *)
(***************************************************************************)
\* the clock stops at MaxTime
MaxTime == 2
\* number of distinct keys written through the cache interface
MaxKeys == 2

\* Config.CACHE_TTL, in ticks (the environment sets it; 600 s by default)
CACHE_TTL == 1

\* 2^16 model units are one degree
UnitsPerDegree == 2^16

None == <<>>
Some(v) == <<v>>

(***************************************************************************)
(* Inputs of the cache interface.                                          *)
(***************************************************************************)
\* (lat, lon, cache_type) of a call: latitudes -2^-16, 2*2^-16, 3*2^-16 and
\* 4*2^-16; longitudes 1/32 (a tie at 4 decimals) and 1/32 + 2^-16
CacheArgs ==
    {<<-1, 2048, "current">>, <<2, 2048, "current">>, <<3, 2048, "current">>,
     <<4, 2048, "current">>, <<3, 2049, "current">>, <<3, 2048, "forecast_3days">>}
CacheValues == {[form |-> "text", n |-> 1], [form |-> "text", n |-> 2]}

(***************************************************************************)
(* f"{x:.4f}": the sign and the number of 10^-4 steps, the exact value      *)
(* rounded to nearest with ties to even.                                   *)
(***************************************************************************)
Abs(x) == IF x < 0 THEN -x ELSE x

RoundHalfEven(num, den) ==
    LET q == num \div den
        r == num % den
    IN  IF 2 * r < den THEN q
        ELSE IF 2 * r > den THEN q + 1
        ELSE q + (q % 2)

\* |x| / 2^16 * 10^4  =  whole * 10^4 + frac * 625 / 4096
Format4f(x) ==
    [neg |-> x < 0,
     digits |-> (Abs(x) \div UnitsPerDegree) * 10000
                + RoundHalfEven((Abs(x) % UnitsPerDegree) * 625, 4096)]

\* a mutant: the key is built from the coordinates as they are, unrounded
MakeKeyUnrounded(lat, lon, cache_type) ==
    [type |-> cache_type,
     lat |-> [neg |-> lat < 0, digits |-> Abs(lat)],
     lon |-> [neg |-> lon < 0, digits |-> Abs(lon)]]

\* WeatherCache._make_key
MakeKey(lat, lon, cache_type) ==
    [type |-> cache_type, lat |-> Format4f(lat), lon |-> Format4f(lon)]

(***************************************************************************)
(* WeatherCache.get: the value returned and the mapping left behind.       *)
(***************************************************************************)
Without(c, key) == [k \in DOMAIN c \ {key} |-> c[k]]

\* a mutant: an entry whose age equals the ttl is already stale
IsStaleAtTtl(timestamp, t) == t - timestamp >= CACHE_TTL

IsStale(timestamp, t) == t - timestamp > CACHE_TTL

GetResult(c, t, lat, lon, cache_type) ==
    LET key == MakeKey(lat, lon, cache_type)
    IN  IF key \notin DOMAIN c THEN None
        ELSE IF IsStale(c[key].timestamp, t) THEN None
        ELSE Some(c[key].value)

\* a mutant: a get that finds its entry stale removes every stale entry
GetCacheSweeping(c, t, lat, lon, cache_type) ==
    LET key == MakeKey(lat, lon, cache_type)
    IN  IF key \notin DOMAIN c THEN c
        ELSE IF IsStale(c[key].timestamp, t)
        THEN [k \in {j \in DOMAIN c : ~IsStale(c[j].timestamp, t)} |-> c[k]]
        ELSE c

\* WeatherCache.get: the mapping it leaves
GetCache(c, t, lat, lon, cache_type) ==
    LET key == MakeKey(lat, lon, cache_type)
    IN  IF key \notin DOMAIN c THEN c
        ELSE IF IsStale(c[key].timestamp, t) THEN Without(c, key)
        ELSE c

\* a mutant: an entry that exists keeps its first timestamp
SetCacheKeepingTimestamp(c, t, lat, lon, value, cache_type) ==
    LET key == MakeKey(lat, lon, cache_type)
    IN  [k \in DOMAIN c \cup {key} |->
            IF k = key
            THEN [timestamp |-> IF key \in DOMAIN c THEN c[key].timestamp ELSE t,
                  value |-> value]
            ELSE c[k]]

\* WeatherCache.set
SetCache(c, t, lat, lon, value, cache_type) ==
    LET key == MakeKey(lat, lon, cache_type)
    IN  [k \in DOMAIN c \cup {key} |->
            IF k = key THEN [timestamp |-> t, value |-> value] ELSE c[k]]

\* a mutant: the sweep takes every entry
CleanupCacheEverything(c, t) == [k \in {} |-> c[k]]

\* a mutant: the sweep also takes the entries whose age equals the ttl
CleanupCacheAtTtl(c, t) ==
    [k \in {j \in DOMAIN c : ~(t - c[j].timestamp >= CACHE_TTL)} |-> c[k]]

\* WeatherCache.cleanup
CleanupCache(c, t) ==
    LET keys_to_delete == {k \in DOMAIN c : t - c[k].timestamp > CACHE_TTL}
    IN  [k \in DOMAIN c \ keys_to_delete |-> c[k]]

EmptyCache == [k \in {} |-> None]

(***************************************************************************)
(* The cache interface as a state machine.  lastSet remembers, per key,    *)
(* the last set that no clear has followed, with the coordinates it was    *)
(* called with (history, not program state).  cacheOp is the call just     *)
(* made: its arguments, what it returned, whether its key was mapped when  *)
(* it began and how many entries it removed.  lazy is a second cache, given *)
(* the gets and sets of the first and never swept.                         *)
(***************************************************************************)
NoOp == [op |-> "none", lat |-> 0, lon |-> 0, type |-> "current",
         value |-> None, ret |-> None, had |-> FALSE, removed |-> 0]

Removed(before, after) == Cardinality(DOMAIN before \ DOMAIN after)

CacheInit ==
    /\ now = 0
    /\ cache = EmptyCache
    /\ lastSet = EmptyCache
    /\ cacheOp = NoOp
    /\ lazy = EmptyCache

\* time.time() moves on
Tick ==
    /\ now < MaxTime
    /\ now' = now + 1
    /\ cacheOp' = NoOp
    /\ UNCHANGED <<cache, lastSet, call, invoked, stores, startup, lazy>>

CacheGet ==
    \E a \in CacheArgs :
      LET lat == a[1]  lon == a[2]  ty == a[3] IN
        /\ cache' = GetCache(cache, now, lat, lon, ty)
        /\ cacheOp' = [op |-> "get", lat |-> lat, lon |-> lon, type |-> ty,
                       value |-> None,
                       ret |-> GetResult(cache, now, lat, lon, ty),
                       had |-> MakeKey(lat, lon, ty) \in DOMAIN cache,
                       removed |-> Removed(cache, cache')]
        /\ UNCHANGED <<now, lastSet, call, invoked, stores, startup, lazy>>

CacheSet ==
    \E a \in CacheArgs, v \in CacheValues :
      LET lat == a[1]  lon == a[2]  ty == a[3] IN
        /\ Cardinality(DOMAIN lastSet) < MaxKeys
           \/ MakeKey(lat, lon, ty) \in DOMAIN lastSet
        /\ cache' = SetCache(cache, now, lat, lon, v, ty)
        /\ lastSet' = [k \in DOMAIN lastSet \cup {MakeKey(lat, lon, ty)} |->
                          IF k = MakeKey(lat, lon, ty)
                          THEN [timestamp |-> now, value |-> v,
                                lat |-> lat, lon |-> lon]
                          ELSE lastSet[k]]
        /\ cacheOp' = [op |-> "set", lat |-> lat, lon |-> lon, type |-> ty,
                       value |-> Some(v), ret |-> None,
                       had |-> MakeKey(lat, lon, ty) \in DOMAIN cache,
                       removed |-> 0]
        /\ UNCHANGED <<now, call, invoked, stores, startup, lazy>>

\* WeatherCache.clear
CacheClear ==
    /\ cache' = EmptyCache
    /\ lastSet' = EmptyCache
    /\ cacheOp' = [NoOp EXCEPT !.op = "clear", !.removed = Removed(cache, cache')]
    /\ UNCHANGED <<now, call, invoked, stores, startup, lazy>>

CacheCleanup ==
    /\ cache' = CleanupCache(cache, now)
    /\ cacheOp' = [NoOp EXCEPT !.op = "cleanup", !.removed = Removed(cache, cache')]
    /\ UNCHANGED <<now, lastSet, call, invoked, stores, startup, lazy>>

CacheNext ==
    \/ Tick
    \/ CacheGet
    \/ CacheSet
    \/ CacheClear
    \/ CacheCleanup

OpKey == MakeKey(cacheOp.lat, cacheOp.lon, cacheOp.type)

(***************************************************************************)
(* C2.  After set(k, v) at time t with no later set or clear on k, a get   *)
(* of k at time t' returns v while t' - t <= ttl (age = ttl is a hit), and  *)
(* once t' - t > ttl it returns None and k is no longer in the mapping.    *)
(***************************************************************************)
GetAfterSetWithinTtl ==
    (cacheOp.op = "get" /\ OpKey \in DOMAIN lastSet) =>
        IF now - lastSet[OpKey].timestamp <= CACHE_TTL
        THEN cacheOp.ret = Some(lastSet[OpKey].value)
        ELSE cacheOp.ret = None /\ OpKey \notin DOMAIN cache

\* a get of an entry whose age is exactly the ttl has returned its value
GetAtTtlBoundaryHit ==
    /\ cacheOp.op = "get"
    /\ OpKey \in DOMAIN lastSet
    /\ now - lastSet[OpKey].timestamp = CACHE_TTL
    /\ cacheOp.ret = Some(lastSet[OpKey].value)

\* a get of an entry older than the ttl has evicted it
GetEvictedStale ==
    /\ cacheOp.op = "get"
    /\ cacheOp.had
    /\ cacheOp.removed = 1
    /\ cacheOp.ret = None
    /\ now - lastSet[OpKey].timestamp > CACHE_TTL

(***************************************************************************)
(* C4.  Two coordinates x, y "differ only beyond the 4th decimal place"    *)
(* when they have the same sign and the same first four decimals; they     *)
(* "round alike" when they have the same sign and the same nearest         *)
(* multiple of 10^-4 (ties to even).  m counts 10^-4 steps.                *)
(***************************************************************************)
MaxDigits == 400

SameFirst4Decimals(x, y) ==
    /\ (x < 0) = (y < 0)
    /\ (Abs(x) * 625) \div 4096 = (Abs(y) * 625) \div 4096

\* |x| / 2^16 * 10^4 lies within half a step of m (at exactly half: m even)
NearestStep(x, m) ==
    LET twice == 2 * Abs(x) * 625
    IN  /\ twice >= 2 * m * 4096 - 4096
        /\ twice <= 2 * m * 4096 + 4096
        /\ (twice = 2 * m * 4096 - 4096 \/ twice = 2 * m * 4096 + 4096) => m % 2 = 0

RoundAlike(x, y) ==
    /\ (x < 0) = (y < 0)
    /\ \E m \in 0..MaxDigits : NearestStep(x, m) /\ NearestStep(y, m)

\* the value a live set left for the call just made, were the two calls'
\* coordinates related by Rel(_, _)
SharesEntry(Rel(_, _)) ==
    cacheOp.op = "get" =>
        \A k \in DOMAIN lastSet :
            ( /\ k.type = cacheOp.type
              /\ Rel(lastSet[k].lat, cacheOp.lat)
              /\ Rel(lastSet[k].lon, cacheOp.lon)
              /\ now - lastSet[k].timestamp <= CACHE_TTL )
            => cacheOp.ret = Some(lastSet[k].value)

\* C4 as claimed: coordinates that differ only beyond the 4th decimal place
\* share one entry, so a get with one returns what a set with the other stored.
SameFirst4DecimalsShareEntry == SharesEntry(SameFirst4Decimals)

\* C4 as amended: coordinates of the same sign that round (to nearest, ties to
\* even) to the same multiple of 10^-4 share one entry: within the ttl a get
\* with one returns what the last set with the other stored.
RoundingAlikeSharesEntry == SharesEntry(RoundAlike)

\* a get with other coordinates than the set's has returned the stored value
GetHitAcrossCoordinates ==
    /\ cacheOp.op = "get"
    /\ OpKey \in DOMAIN lastSet
    /\ <<lastSet[OpKey].lat, lastSet[OpKey].lon>> # <<cacheOp.lat, cacheOp.lon>>
    /\ cacheOp.ret = Some(lastSet[OpKey].value)

(***************************************************************************)
(* C5.  cleanup at time now removes every entry older than the ttl and no  *)
(* other: an entry of age <= ttl stays, with its timestamp and value.      *)
(***************************************************************************)
CleanupRemovesAllAndOnlyStale ==
    [][cacheOp'.op = "cleanup" =>
          /\ DOMAIN cache' \subseteq DOMAIN cache
          /\ \A k \in DOMAIN cache :
                IF now' - cache[k].timestamp > CACHE_TTL
                THEN k \notin DOMAIN cache'
                ELSE k \in DOMAIN cache' /\ cache'[k] = cache[k]]_vars

\* a cleanup has removed an entry and kept another one
CleanupRemovedOneKeptOne ==
    /\ cacheOp.op = "cleanup"
    /\ cacheOp.removed > 0
    /\ \E k \in DOMAIN cache : now - cache[k].timestamp <= CACHE_TTL

(***************************************************************************)
(* C6.  The mapping holds one entry per key; set(k, v) on a key that has   *)
(* an entry, fresh or stale, replaces it with (now, v): afterwards k has   *)
(* that one entry and every other key is as before.                        *)
(***************************************************************************)
SetReplacesEntry ==
    [][cacheOp'.op = "set" =>
          LET key == MakeKey(cacheOp'.lat, cacheOp'.lon, cacheOp'.type)
          IN  /\ DOMAIN cache' = DOMAIN cache \cup {key}
              /\ Cardinality(DOMAIN cache') =
                     Cardinality(DOMAIN cache) + (IF key \in DOMAIN cache THEN 0 ELSE 1)
              /\ cache'[key] = [timestamp |-> now', value |-> cacheOp'.value[1]]
              /\ \A k \in DOMAIN cache \ {key} : cache'[k] = cache[k]]_vars

\* a set has replaced an entry written at an earlier time by another value
SetOverwroteEntry ==
    /\ cacheOp.op = "set"
    /\ cacheOp.had
    /\ now > 0
    /\ cache[OpKey].timestamp = now

(***************************************************************************)
(* Values.  A JSON argument is a number, a string or null.  A string is    *)
(* the list of its comma-separated parts (str.split(",")); the empty       *)
(* string has no part.  A part is numeric (float() and int() read num      *)
(* from it) or a word.                                                     *)
(***************************************************************************)
JNum(n) == [kind |-> "number", num |-> n, parts |-> <<>>]
JNull == [kind |-> "null", num |-> 0, parts |-> <<>>]
JStr(parts) == [kind |-> "string", num |-> 0, parts |-> parts]
Numeral(n) == [numeric |-> TRUE, num |-> n, word |-> ""]
Word(w) == [numeric |-> FALSE, num |-> 0, word |-> w]

\* bool(value) of an argument
Truthy(v) ==
    \/ v.kind = "number" /\ v.num # 0
    \/ v.kind = "string" /\ v.parts # <<>>

\* "," in location
HasComma(v) == Len(v.parts) > 1

(***************************************************************************)
(* Exceptions.  msg is str(e): a fixed text, with the HTTP status or the   *)
(* cause where the code puts one in.                                       *)
(***************************************************************************)
Msg(text, status, cause) == [text |-> text, status |-> status, cause |-> cause]
Exc(type, msg) == [type |-> type, msg |-> msg]

\* a call either returns a value or raises an exception
Returned(v) == [raised |-> None, value |-> Some(v)]
Raised(e) == [raised |-> Some(e), value |-> None]

\* float(value)
PyFloat(v) ==
    IF v.kind = "number" THEN Returned(v.num)
    ELSE IF v.kind = "null"
    THEN Raised(Exc("TypeError", Msg("float() argument must be a string or a real number", 0, "")))
    ELSE IF Len(v.parts) = 1 /\ v.parts[1].numeric THEN Returned(v.parts[1].num)
    ELSE Raised(Exc("ValueError", Msg("could not convert string to float", 0, "")))

\* int(value)
PyInt(v) ==
    IF v.kind = "number" THEN Returned(v.num)
    ELSE IF v.kind = "null"
    THEN Raised(Exc("TypeError", Msg("int() argument must be a string or a real number", 0, "")))
    ELSE IF Len(v.parts) = 1 /\ v.parts[1].numeric THEN Returned(v.parts[1].num)
    ELSE Raised(Exc("ValueError", Msg("invalid literal for int()", 0, "")))

\* float(part.strip()) of one part of a split string
FloatOfPart(part) ==
    IF part.numeric THEN Returned(part.num)
    ELSE Raised(Exc("ValueError", Msg("could not convert string to float", 0, "")))

\* except ValueError catches ValueError and its subclasses
IsValueError(e) == e.type \in {"ValueError", "JSONDecodeError", "UnicodeDecodeError"}
\* except aiohttp.ClientError
IsClientError(e) == e.type \in {"ClientConnectorError", "ClientPayloadError", "ContentTypeError"}
\* a mutant: CancelledError is an Exception, as it was before Python 3.8
IsExceptionWithCancelled(e) ==
    e.type \notin {"KeyboardInterrupt", "SystemExit", "GeneratorExit"}

\* except Exception: everything but the BaseException-only classes
IsException(e) == e.type # "CancelledError"

(***************************************************************************)
(* The upstream answer to one HTTP request, chosen by the environment:     *)
(* transport is "ok" or the failure of the connection; status, body and    *)
(* text are read only when transport is "ok".  body says how reading the   *)
(* response body ends: "ok", "client_error" (aiohttp gives up on the       *)
(* payload or its content type), "decode_error" (the bytes do not decode)  *)
(* or "timeout" (the total timeout expires while reading).                 *)
(***************************************************************************)
NoRequest == [latitude |-> 0, longitude |-> 0, kind |-> "none", forecast_days |-> 0]
NoData == [shape |-> "none", version |-> 0, request |-> NoRequest]

\* session.get(...) failing before a response arrives
TransportError(transport) ==
    IF transport = "timeout" THEN Exc("TimeoutError", Msg("", 0, ""))
    ELSE Exc("ClientConnectorError", Msg("Cannot connect to host", 0, transport))

\* await response.json() failing
JsonError(body) ==
    IF body = "timeout" THEN Exc("TimeoutError", Msg("", 0, ""))
    ELSE IF body = "client_error" THEN Exc("ContentTypeError", Msg("Attempt to decode JSON with unexpected mimetype", 0, ""))
    ELSE Exc("JSONDecodeError", Msg("Expecting value", 0, ""))

\* await response.text() failing
TextError(body) ==
    IF body = "timeout" THEN Exc("TimeoutError", Msg("", 0, ""))
    ELSE IF body = "client_error" THEN Exc("ClientPayloadError", Msg("Response payload is not completed", 0, ""))
    ELSE Exc("UnicodeDecodeError", Msg("codec can't decode byte", 0, ""))

\* raise ValueError(f"Ошибка сети: {str(e)}")
NetworkError(e) == Exc("ValueError", Msg("Network error", 0, e.msg.text))

\* except aiohttp.ClientError around the whole request
WrapClientError(e) == IF IsClientError(e) THEN NetworkError(e) ELSE e
\* a mutant: the provider is given the coordinate in the other order
CurrentParamsSwapped(lat, lon) ==
    [latitude |-> lon, longitude |-> lat, kind |-> "current", forecast_days |-> 0]

\* params of WeatherProvider.get_current_weather
CurrentParams(lat, lon) ==
    [latitude |-> lat, longitude |-> lon, kind |-> "current", forecast_days |-> 0]

Min(a, b) == IF a < b THEN a ELSE b
Max(a, b) == IF a > b THEN a ELSE b

\* a mutant: the provider clamps to a week
ForecastParamsMax7(lat, lon, days) ==
    [latitude |-> lat, longitude |-> lon, kind |-> "daily",
     forecast_days |-> Min(Max(days, 1), 7)]

\* params of WeatherProvider.get_forecast
ForecastParams(lat, lon, days) ==
    [latitude |-> lat, longitude |-> lon, kind |-> "daily",
     forecast_days |-> Min(Max(days, 1), 16)]

\* a mutant: the 429 branch is missing, so 429 falls to the last branch
CurrentStatusErrorWithout429(resp) ==
    IF resp.status = 400
    THEN IF resp.body = "ok"
         THEN Exc("ValueError", Msg("Invalid request parameters", 0, ""))
         ELSE TextError(resp.body)
    ELSE IF resp.status >= 500
    THEN Exc("ValueError", Msg("Open-Meteo server error", 0, ""))
    ELSE IF resp.body = "ok"
         THEN Exc("ValueError", Msg("API error", resp.status, ""))
         ELSE TextError(resp.body)

\* a mutant: the error of the last branch leaves out the status code
CurrentStatusErrorWithoutStatus(resp) ==
    IF resp.status = 400
    THEN IF resp.body = "ok"
         THEN Exc("ValueError", Msg("Invalid request parameters", 0, ""))
         ELSE TextError(resp.body)
    ELSE IF resp.status = 429
    THEN Exc("ValueError", Msg("Rate limit exceeded. Try again later", 0, ""))
    ELSE IF resp.status >= 500
    THEN Exc("ValueError", Msg("Open-Meteo server error", 0, ""))
    ELSE IF resp.body = "ok"
         THEN Exc("ValueError", Msg("API error", 0, ""))
         ELSE TextError(resp.body)

\* WeatherProvider.get_current_weather, the branches for a status other than 200
CurrentStatusError(resp) ==
    IF resp.status = 400
    THEN IF resp.body = "ok"
         THEN Exc("ValueError", Msg("Invalid request parameters", 0, ""))
         ELSE TextError(resp.body)
    ELSE IF resp.status = 429
    THEN Exc("ValueError", Msg("Rate limit exceeded. Try again later", 0, ""))
    ELSE IF resp.status >= 500
    THEN Exc("ValueError", Msg("Open-Meteo server error", 0, ""))
    ELSE IF resp.body = "ok"
         THEN Exc("ValueError", Msg("API error", resp.status, ""))
         ELSE TextError(resp.body)

\* WeatherProvider.get_current_weather, given the upstream answer
GetCurrentWeather(lat, lon, lang, resp) ==
    IF resp.transport # "ok" THEN Raised(WrapClientError(TransportError(resp.transport)))
    ELSE IF resp.status = 200
    THEN IF resp.body = "ok" THEN Returned(resp.data)
         ELSE Raised(WrapClientError(JsonError(resp.body)))
    ELSE Raised(WrapClientError(CurrentStatusError(resp)))

\* a mutant: the server-error branch tests status == 500
ForecastStatusErrorOnly500(resp) ==
    IF resp.status = 400
    THEN IF resp.body = "ok"
         THEN Exc("ValueError", Msg("Invalid request parameters", 0, ""))
         ELSE TextError(resp.body)
    ELSE IF resp.status = 429
    THEN Exc("ValueError", Msg("Rate limit exceeded. Try again later", 0, ""))
    ELSE IF resp.status = 500
    THEN Exc("ValueError", Msg("Open-Meteo server error", 0, ""))
    ELSE IF resp.body = "ok"
         THEN Exc("ValueError", Msg("API error", resp.status, ""))
         ELSE TextError(resp.body)

\* WeatherProvider.get_forecast, the branches for a status other than 200
ForecastStatusError(resp) ==
    IF resp.status = 400
    THEN IF resp.body = "ok"
         THEN Exc("ValueError", Msg("Invalid request parameters", 0, ""))
         ELSE TextError(resp.body)
    ELSE IF resp.status = 429
    THEN Exc("ValueError", Msg("Rate limit exceeded. Try again later", 0, ""))
    ELSE IF resp.status >= 500
    THEN Exc("ValueError", Msg("Open-Meteo server error", 0, ""))
    ELSE IF resp.body = "ok"
         THEN Exc("ValueError", Msg("API error", resp.status, ""))
         ELSE TextError(resp.body)

\* WeatherProvider.get_forecast, given the upstream answer
GetForecast(lat, lon, days, lang, resp) ==
    IF resp.transport # "ok" THEN Raised(WrapClientError(TransportError(resp.transport)))
    ELSE IF resp.status = 200
    THEN IF resp.body = "ok" THEN Returned(resp.data)
         ELSE Raised(WrapClientError(JsonError(resp.body)))
    ELSE Raised(WrapClientError(ForecastStatusError(resp)))

(***************************************************************************)
(* Texts.  One record shape for every text the server returns or caches.   *)
(***************************************************************************)
NoMsg == Msg("", 0, "")
NoPlace == [full_name |-> <<>>, lat |-> None, lon |-> None]
BlankText == [form |-> "", msg |-> NoMsg, data |-> NoData, days |-> 0,
              place |-> NoPlace, city |-> JNull]

\* f"Ошибка: {str(e)}"
ErrorText(msg) == [BlankText EXCEPT !.form = "Error", !.msg = msg]
\* f"Произошла ошибка: {str(e)}"
UnexpectedText(msg) == [BlankText EXCEPT !.form = "Unexpected", !.msg = msg]

\* types.TextContent(type="text", text=...)
TextContent(text) == [type |-> "text", text |-> text]

(***************************************************************************)
(* WeatherFormatter.  A payload is well formed ("ok"), holds a null where  *)
(* a number is rounded ("null_number": round(None) is a TypeError) or a    *)
(* string where a number is formatted ("string_number": f"{'x':.2f}" is a  *)
(* ValueError).                                                            *)
(***************************************************************************)
FormatError(data) ==
    IF data.shape = "null_number"
    THEN Exc("TypeError", Msg("type NoneType doesn't define __round__ method", 0, ""))
    ELSE Exc("ValueError", Msg("Unknown format code 'f' for object of type 'str'", 0, ""))

\* WeatherFormatter.format_current_weather
FormatCurrentWeather(data) ==
    IF data.shape = "ok"
    THEN Returned([BlankText EXCEPT !.form = "current", !.data = data])
    ELSE Raised(FormatError(data))
\* a mutant: the forecast text has no header and may be empty
FormatForecastWithoutHeader(data, days) ==
    IF data.shape = "ok"
    THEN Returned(BlankText)
    ELSE Raised(FormatError(data))

\* WeatherFormatter.format_forecast
FormatForecast(data, days) ==
    IF data.shape = "ok"
    THEN Returned([BlankText EXCEPT !.form = "forecast", !.data = data, !.days = days])
    ELSE Raised(FormatError(data))

(***************************************************************************)
(* WeatherProvider.geocode_location.  The decoded answer holds "results":  *)
(* a first match (whose latitude and longitude may be missing), an empty   *)
(* list, or no such field.                                                 *)
(***************************************************************************)
NoMatch == [results |-> "empty", latitude |-> None, longitude |-> None,
            name |-> "", admin1 |-> "", country |-> ""]

\* full_name of a match
FullName(result) ==
    IF result.country # "" THEN <<result.name, result.country>>
    ELSE IF result.admin1 # "" THEN <<result.name, result.admin1>>
    ELSE <<result.name>>

\* WeatherProvider.geocode_location, given the upstream answer: a raised
\* exception, None, or Some((lat, lon, full_name))
GeocodeLocation(city_name, resp) ==
    IF resp.transport # "ok"
    THEN IF IsClientError(TransportError(resp.transport)) THEN Returned(None)
         ELSE Raised(TransportError(resp.transport))
    ELSE IF resp.status = 200
    THEN IF resp.body # "ok"
         THEN IF IsClientError(JsonError(resp.body)) THEN Returned(None)
              ELSE Raised(JsonError(resp.body))
         ELSE IF resp.data.results = "match"
         THEN Returned(Some([lat |-> resp.data.latitude,
                             lon |-> resp.data.longitude,
                             full_name |-> FullName(resp.data)]))
         ELSE Returned(None)
    ELSE Returned(None)

(***************************************************************************)
(* Config and the coordinates of the model (in units of 2^-16 degree).     *)
(***************************************************************************)
\* Config.DEFAULT_LOCATION, "55.75396,37.620393" to the nearest unit
DEFAULT_LOCATION == JStr(<<Numeral(3653892), Numeral(2465494)>>)
\* Config.DEFAULT_LANG
DEFAULT_LANG == "ru_RU"

\* 55.75 N, 37.625 E
LatA == 55 * UnitsPerDegree + 49152
LonA == 37 * UnitsPerDegree + 40960
\* what the geocoder answers with: 48.75 N, 2.25 E
LatG == 48 * UnitsPerDegree + 49152
LonG == 2 * UnitsPerDegree + 16384
\* a mutant: the cache type of a forecast does not name the days
ForecastCacheTypeWithoutDays(days) == "forecast_days"

\* f"forecast_{days}days" for the clamped days
ForecastCacheType(days) ==
    CASE days = 1 -> "forecast_1days"   [] days = 2 -> "forecast_2days"
      [] days = 3 -> "forecast_3days"   [] days = 4 -> "forecast_4days"
      [] days = 5 -> "forecast_5days"   [] days = 6 -> "forecast_6days"
      [] days = 7 -> "forecast_7days"   [] days = 8 -> "forecast_8days"
      [] days = 9 -> "forecast_9days"   [] days = 10 -> "forecast_10days"
      [] days = 11 -> "forecast_11days" [] days = 12 -> "forecast_12days"
      [] days = 13 -> "forecast_13days" [] days = 14 -> "forecast_14days"
      [] days = 15 -> "forecast_15days" [] days = 16 -> "forecast_16days"

(***************************************************************************)
(* The tool dispatcher, call_tool.  A call runs without interruption from  *)
(* one await to the next; pc is where it stands:                           *)
(*   "idle"       not started                                              *)
(*   "geocoding"  in parse_location, awaiting geocode_location             *)
(*   "searching"  in search_location, awaiting geocode_location            *)
(*   "fetching"   awaiting get_current_weather / get_forecast              *)
(*   "done"       returned result                                          *)
(*   "raised"     left by an exception (raised)                            *)
(* The other fields are the locals of the call and, as history, the        *)
(* requests it has sent, the answers of the geocoding and the weather API  *)
(* and what the provider made of them, the exception that the except       *)
(* clauses caught, the time of its cache lookup and how many stores had    *)
(* been made when it was called and when it looked up.                     *)
(***************************************************************************)
NoArgs == [a \in {} |-> JNull]
NoAnswer == [transport |-> "none", status |-> 0, body |-> "ok", data |-> NoData, text |-> ""]
NotProvided == [raised |-> None, value |-> None]
NoGeoAnswer == [transport |-> "none", status |-> 0, body |-> "ok", data |-> NoMatch, text |-> ""]

IdleCall ==
    [pc |-> "idle", name |-> "", arguments |-> NoArgs,
     lat |-> None, lon |-> None, days |-> 0,
     result |-> <<>>, raised |-> None,
     geocodeRequests |-> 0, weatherRequests |-> 0, sent |-> NoRequest,
     answer |-> NoAnswer, provided |-> NotProvided,
     geoAnswer |-> NoGeoAnswer, geocoded |-> NotProvided, caught |-> None,
     lookupTime |-> -1, storesAtCall |-> 0, storesAtLookup |-> 0]

\* arguments.get(key)
ArgGet(arguments, key) == IF key \in DOMAIN arguments THEN arguments[key] ELSE JNull

\* return [types.TextContent(type="text", text=text)]
Finish(c, text) == [c EXCEPT !.pc = "done", !.result = <<TextContent(text)>>]

\* a mutant: the handler of Exception is missing
HandleOnlyValueError(c, e) ==
    IF IsValueError(e) THEN Finish([c EXCEPT !.caught = Some(e)], ErrorText(e.msg))
    ELSE [c EXCEPT !.pc = "raised", !.raised = Some(e)]

\* a mutant: except Exception stands before except ValueError
HandleExceptionFirst(c, e) ==
    IF IsException(e) THEN Finish([c EXCEPT !.caught = Some(e)], UnexpectedText(e.msg))
    ELSE [c EXCEPT !.pc = "raised", !.raised = Some(e)]

\* the except clauses of call_tool, for an exception e raised inside the try
Handle(c, e) ==
    IF IsValueError(e) THEN Finish([c EXCEPT !.caught = Some(e)], ErrorText(e.msg))
    ELSE IF IsException(e) THEN Finish([c EXCEPT !.caught = Some(e)], UnexpectedText(e.msg))
    ELSE [c EXCEPT !.pc = "raised", !.raised = Some(e)]

\* the effect of a step: the call, the cache and the log of stores
Effect(c, ch, st) == [call |-> c, cache |-> ch, stores |-> st]

\* bool(cached) of a cached text
TruthyText(text) == text # BlankText
\* a mutant: the lookup returns the cached text whatever its age
LookupServingStale(c, ch, st, t, cache_type) ==
    IF c.lat = None \/ c.lon = None
    THEN Effect(Handle(c, Exc("TypeError", Msg("unsupported format string passed to NoneType.__format__", 0, ""))),
                ch, st)
    ELSE LET key == MakeKey(c.lat[1], c.lon[1], cache_type)
             c1 == [c EXCEPT !.lookupTime = t, !.storesAtLookup = Len(st)]
         IN  IF key \in DOMAIN ch /\ TruthyText(ch[key].value)
             THEN Effect(Finish(c1, ch[key].value), ch, st)
             ELSE Effect([c1 EXCEPT !.pc = "fetching",
                                    !.weatherRequests = @ + 1,
                                    !.sent = IF c.name = "get_current_weather"
                                             THEN CurrentParams(c.lat[1], c.lon[1])
                                             ELSE ForecastParams(c.lat[1], c.lon[1], c.days)],
                         ch, st)

\* a mutant: the cached text is ignored and the weather is fetched again
LookupIgnoringCache(c, ch, st, t, cache_type) ==
    Effect([c EXCEPT !.pc = "fetching",
                     !.lookupTime = t, !.storesAtLookup = Len(st),
                     !.weatherRequests = @ + 1,
                     !.sent = IF c.name = "get_current_weather"
                              THEN CurrentParams(c.lat[1], c.lon[1])
                              ELSE ForecastParams(c.lat[1], c.lon[1], c.days)],
           GetCache(ch, t, c.lat[1], c.lon[1], cache_type), st)

\* a mutant: the lookup leaves a stale entry where it is
LookupLeavingStale(c, ch, st, t, cache_type) ==
    IF c.lat = None \/ c.lon = None
    THEN Effect(Handle(c, Exc("TypeError", Msg("unsupported format string passed to NoneType.__format__", 0, ""))),
                ch, st)
    ELSE LET cached == GetResult(ch, t, c.lat[1], c.lon[1], cache_type)
             c1 == [c EXCEPT !.lookupTime = t, !.storesAtLookup = Len(st)]
         IN  IF cached # None /\ TruthyText(cached[1])
             THEN Effect(Finish(c1, cached[1]), ch, st)
             ELSE Effect([c1 EXCEPT !.pc = "fetching",
                                    !.weatherRequests = @ + 1,
                                    !.sent = IF c.name = "get_current_weather"
                                             THEN CurrentParams(c.lat[1], c.lon[1])
                                             ELSE ForecastParams(c.lat[1], c.lon[1], c.days)],
                         ch, st)

\* call_tool from the cache lookup to the next await or return; c.lat and
\* c.lon are set, c.days is set for a forecast
Lookup(c, ch, st, t, cache_type) ==
    IF c.lat = None \/ c.lon = None
    THEN \* f"{lat:.4f}" of None in _make_key
         Effect(Handle(c, Exc("TypeError", Msg("unsupported format string passed to NoneType.__format__", 0, ""))),
                ch, st)
    ELSE LET cached == GetResult(ch, t, c.lat[1], c.lon[1], cache_type)
             ch1 == GetCache(ch, t, c.lat[1], c.lon[1], cache_type)
             c1 == [c EXCEPT !.lookupTime = t, !.storesAtLookup = Len(st)]
         IN  IF cached # None /\ TruthyText(cached[1])
             THEN Effect(Finish(c1, cached[1]), ch1, st)
             ELSE Effect([c1 EXCEPT !.pc = "fetching",
                                    !.weatherRequests = @ + 1,
                                    !.sent = IF c.name = "get_current_weather"
                                             THEN CurrentParams(c.lat[1], c.lon[1])
                                             ELSE ForecastParams(c.lat[1], c.lon[1], c.days)],
                         ch1, st)

\* call_tool once lat, lon are known (Optional numbers), to the next await
AfterCoordinates(c, lat, lon, ch, st, t) ==
    LET c1 == [c EXCEPT !.lat = lat, !.lon = lon]
    IN  IF c.name = "get_current_weather"
        THEN Lookup(c1, ch, st, t, "current")
        ELSE LET d == PyInt(IF "days" \in DOMAIN c.arguments
                            THEN c.arguments["days"] ELSE JNum(3))
             IN  IF d.raised # None THEN Effect(Handle(c1, d.raised[1]), ch, st)
                 ELSE LET days == Min(Max(d.value[1], 1), 16)
                      IN  Lookup([c1 EXCEPT !.days = days], ch, st, t,
                                 ForecastCacheType(days))

\* the last two lines of parse_location
DefaultCoordinate ==
    <<PyFloat(JStr(<<DEFAULT_LOCATION.parts[1]>>)).value,
      PyFloat(JStr(<<DEFAULT_LOCATION.parts[2]>>)).value>>

\* parse_location up to its await: "default", "geocode", a pair or an exception
ParseLocation(location) ==
    IF ~Truthy(location) THEN [to |-> "default", raised |-> None, lat |-> None, lon |-> None]
    ELSE IF location.kind # "string"
    THEN [to |-> "raise", lat |-> None, lon |-> None,
          raised |-> Some(Exc("TypeError", Msg("argument of type is not iterable", 0, "")))]
    ELSE IF /\ HasComma(location)
            /\ FloatOfPart(location.parts[1]).raised = None
            /\ FloatOfPart(location.parts[2]).raised = None
    THEN [to |-> "pair", raised |-> None,
          lat |-> FloatOfPart(location.parts[1]).value,
          lon |-> FloatOfPart(location.parts[2]).value]
    ELSE [to |-> "geocode", raised |-> None, lat |-> None, lon |-> None]

\* a mutant: a location argument takes precedence over lat and lon
StartWeatherLocationFirst(c, ch, st, t) ==
    IF /\ "lat" \in DOMAIN c.arguments /\ "lon" \in DOMAIN c.arguments
       /\ "location" \notin DOMAIN c.arguments
    THEN LET la == PyFloat(c.arguments["lat"])
             lo == PyFloat(c.arguments["lon"])
         IN  IF la.raised # None THEN Effect(Handle(c, la.raised[1]), ch, st)
             ELSE IF lo.raised # None THEN Effect(Handle(c, lo.raised[1]), ch, st)
             ELSE AfterCoordinates(c, la.value, lo.value, ch, st, t)
    ELSE LET r == ParseLocation(ArgGet(c.arguments, "location"))
         IN  CASE r.to = "raise" -> Effect(Handle(c, r.raised[1]), ch, st)
               [] r.to = "pair" -> AfterCoordinates(c, r.lat, r.lon, ch, st, t)
               [] r.to = "default" ->
                    AfterCoordinates(c, DefaultCoordinate[1], DefaultCoordinate[2], ch, st, t)
               [] r.to = "geocode" ->
                    Effect([c EXCEPT !.pc = "geocoding", !.geocodeRequests = @ + 1], ch, st)

\* get_current_weather / get_weather_forecast from the start of call_tool
StartWeather(c, ch, st, t) ==
    IF "lat" \in DOMAIN c.arguments /\ "lon" \in DOMAIN c.arguments
    THEN LET la == PyFloat(c.arguments["lat"])
             lo == PyFloat(c.arguments["lon"])
         IN  IF la.raised # None THEN Effect(Handle(c, la.raised[1]), ch, st)
             ELSE IF lo.raised # None THEN Effect(Handle(c, lo.raised[1]), ch, st)
             ELSE AfterCoordinates(c, la.value, lo.value, ch, st, t)
    ELSE LET r == ParseLocation(ArgGet(c.arguments, "location"))
         IN  CASE r.to = "raise" -> Effect(Handle(c, r.raised[1]), ch, st)
               [] r.to = "pair" -> AfterCoordinates(c, r.lat, r.lon, ch, st, t)
               [] r.to = "default" ->
                    AfterCoordinates(c, DefaultCoordinate[1], DefaultCoordinate[2], ch, st, t)
               [] r.to = "geocode" ->
                    Effect([c EXCEPT !.pc = "geocoding", !.geocodeRequests = @ + 1], ch, st)

\* search_location from the start of call_tool
StartSearch(c, ch, st) ==
    LET city_name == ArgGet(c.arguments, "city_name")
    IN  IF ~Truthy(city_name)
        THEN Effect(Finish(c, ErrorText(Msg("city name not given", 0, ""))), ch, st)
        ELSE Effect([c EXCEPT !.pc = "searching", !.geocodeRequests = @ + 1], ch, st)

\* a mutant: the last branch is the forecast, not the error
StartUnknownAsForecast(name, arguments, ch, st, t) ==
    LET c == [IdleCall EXCEPT !.name = name, !.arguments = arguments,
                              !.storesAtCall = Len(st)]
    IN  IF name = "search_location" THEN StartSearch(c, ch, st)
        ELSE StartWeather(c, ch, st, t)

\* call_tool(name, arguments) up to its first await or its return
Start(name, arguments, ch, st, t) ==
    LET c == [IdleCall EXCEPT !.name = name, !.arguments = arguments,
                              !.storesAtCall = Len(st)]
    IN  IF name \in {"get_current_weather", "get_weather_forecast"}
        THEN StartWeather(c, ch, st, t)
        ELSE IF name = "search_location" THEN StartSearch(c, ch, st)
        ELSE Effect(Handle(c, Exc("ValueError", Msg("Unknown tool", 0, name))), ch, st)

\* parse_location and call_tool after geocode_location has answered
AfterGeocode(c, resp, ch, st, t) ==
    LET g == GeocodeLocation(ArgGet(c.arguments, "location"), resp)
        c1 == [c EXCEPT !.geoAnswer = resp, !.geocoded = g]
    IN  IF g.raised # None THEN Effect(Handle(c1, g.raised[1]), ch, st)
        ELSE IF g.value[1] # None
        THEN AfterCoordinates(c1, g.value[1][1].lat, g.value[1][1].lon, ch, st, t)
        ELSE AfterCoordinates(c1, DefaultCoordinate[1], DefaultCoordinate[2], ch, st, t)

\* f"📍 {full_name}\nКоординаты: {lat}, {lon}"
FoundText(place) == [BlankText EXCEPT !.form = "found", !.place = place]
\* f"Город '{city_name}' не найден"
NotFoundText(city_name) == [BlankText EXCEPT !.form = "not_found", !.city = city_name]

\* a mutant: the place found is kept in the cache
AfterSearchCaching(c, resp, ch, st) ==
    LET g == GeocodeLocation(ArgGet(c.arguments, "city_name"), resp)
        c1 == [c EXCEPT !.geoAnswer = resp, !.geocoded = g]
    IN  IF g.raised # None THEN Effect(Handle(c1, g.raised[1]), ch, st)
        ELSE IF g.value[1] # None
        THEN Effect(Finish(c1, FoundText(g.value[1][1])),
                    IF g.value[1][1].lat # None /\ g.value[1][1].lon # None
                    THEN SetCache(ch, 0, g.value[1][1].lat[1], g.value[1][1].lon[1],
                                  FoundText(g.value[1][1]), "current")
                    ELSE ch,
                    st)
        ELSE Effect(Finish(c1, NotFoundText(ArgGet(c.arguments, "city_name"))), ch, st)

\* search_location after geocode_location has answered
AfterSearch(c, resp, ch, st) ==
    LET g == GeocodeLocation(ArgGet(c.arguments, "city_name"), resp)
        c1 == [c EXCEPT !.geoAnswer = resp, !.geocoded = g]
    IN  IF g.raised # None THEN Effect(Handle(c1, g.raised[1]), ch, st)
        ELSE IF g.value[1] # None
        THEN Effect(Finish(c1, FoundText(g.value[1][1])), ch, st)
        ELSE Effect(Finish(c1, NotFoundText(ArgGet(c.arguments, "city_name"))), ch, st)

\* one store, as history
StoreEvent(c, text, t, cache_type) ==
    [lat |-> c.lat[1], lon |-> c.lon[1], type |-> cache_type, text |-> text, time |-> t]
\* a mutant: the text of an error is stored like the text of the weather
StoreCachingErrors(c, r, ch, st, t, cache_type) ==
    IF r.raised # None
    THEN LET h == Handle(c, r.raised[1])
         IN  Effect(h, IF h.pc = "done"
                       THEN SetCache(ch, t, c.lat[1], c.lon[1], h.result[1].text, cache_type)
                       ELSE ch, st)
    ELSE Effect(Finish(c, r.value[1]),
                SetCache(ch, t, c.lat[1], c.lon[1], r.value[1], cache_type),
                Append(st, StoreEvent(c, r.value[1], t, cache_type)))

\* a mutant: a store does not replace the entry another call has stored
StoreIfAbsent(c, r, ch, st, t, cache_type) ==
    IF r.raised # None THEN Effect(Handle(c, r.raised[1]), ch, st)
    ELSE Effect(Finish(c, r.value[1]),
                IF MakeKey(c.lat[1], c.lon[1], cache_type) \in DOMAIN ch THEN ch
                ELSE SetCache(ch, t, c.lat[1], c.lon[1], r.value[1], cache_type),
                Append(st, StoreEvent(c, r.value[1], t, cache_type)))

\* the end of a weather call: r is the formatted text or the exception that
\* the provider or the formatter raised
Store(c, r, ch, st, t, cache_type) ==
    IF r.raised # None THEN Effect(Handle(c, r.raised[1]), ch, st)
    ELSE Effect(Finish(c, r.value[1]),
                SetCache(ch, t, c.lat[1], c.lon[1], r.value[1], cache_type),
                Append(st, StoreEvent(c, r.value[1], t, cache_type)))

\* a mutant: a request that failed in transport is sent once more
AfterFetchRetrying(c, resp, ch, st, t) ==
    IF resp.transport # "ok" /\ c.weatherRequests < 2
    THEN Effect([c EXCEPT !.weatherRequests = @ + 1], ch, st)
    ELSE IF c.name = "get_current_weather"
    THEN LET data == GetCurrentWeather(c.lat[1], c.lon[1], DEFAULT_LANG, resp)
         IN  Store([c EXCEPT !.answer = resp, !.provided = data],
                   IF data.raised # None THEN data ELSE FormatCurrentWeather(data.value[1]),
                   ch, st, t, "current")
    ELSE LET data == GetForecast(c.lat[1], c.lon[1], c.days, DEFAULT_LANG, resp)
         IN  Store([c EXCEPT !.answer = resp, !.provided = data],
                   IF data.raised # None THEN data ELSE FormatForecast(data.value[1], c.days),
                   ch, st, t, ForecastCacheType(c.days))
\* a mutant: the forecast is stored under the key of the current weather
AfterFetchOneCacheType(c, resp, ch, st, t) ==
    IF c.name = "get_current_weather"
    THEN LET data == GetCurrentWeather(c.lat[1], c.lon[1], DEFAULT_LANG, resp)
         IN  Store([c EXCEPT !.answer = resp, !.provided = data],
                   IF data.raised # None THEN data ELSE FormatCurrentWeather(data.value[1]),
                   ch, st, t, "current")
    ELSE LET data == GetForecast(c.lat[1], c.lon[1], c.days, DEFAULT_LANG, resp)
         IN  Store([c EXCEPT !.answer = resp, !.provided = data],
                   IF data.raised # None THEN data ELSE FormatForecast(data.value[1], c.days),
                   ch, st, t, "current")

\* a mutant: a rate-limited request waits for a retry that nothing starts
AfterFetchWaitingOn429(c, resp, ch, st, t) ==
    IF resp.transport = "ok" /\ resp.status = 429
    THEN Effect([c EXCEPT !.pc = "backoff", !.answer = resp], ch, st)
    ELSE IF c.name = "get_current_weather"
    THEN LET data == GetCurrentWeather(c.lat[1], c.lon[1], DEFAULT_LANG, resp)
         IN  Store([c EXCEPT !.answer = resp, !.provided = data],
                   IF data.raised # None THEN data ELSE FormatCurrentWeather(data.value[1]),
                   ch, st, t, "current")
    ELSE LET data == GetForecast(c.lat[1], c.lon[1], c.days, DEFAULT_LANG, resp)
         IN  Store([c EXCEPT !.answer = resp, !.provided = data],
                   IF data.raised # None THEN data ELSE FormatForecast(data.value[1], c.days),
                   ch, st, t, ForecastCacheType(c.days))

\* call_tool after the provider has answered
AfterFetch(c, resp, ch, st, t) ==
    IF c.name = "get_current_weather"
    THEN LET data == GetCurrentWeather(c.lat[1], c.lon[1], DEFAULT_LANG, resp)
         IN  Store([c EXCEPT !.answer = resp, !.provided = data],
                   IF data.raised # None THEN data ELSE FormatCurrentWeather(data.value[1]),
                   ch, st, t, "current")
    ELSE LET data == GetForecast(c.lat[1], c.lon[1], c.days, DEFAULT_LANG, resp)
         IN  Store([c EXCEPT !.answer = resp, !.provided = data],
                   IF data.raised # None THEN data ELSE FormatForecast(data.value[1], c.days),
                   ch, st, t, ForecastCacheType(c.days))

(***************************************************************************)
(* Inputs: the tool calls the protocol layer delivers and the answers of   *)
(* the upstream services.                                                  *)
(***************************************************************************)
Args1(k, v) == [a \in {k} |-> v]
Args2(k1, v1, k2, v2) == [a \in {k1, k2} |-> IF a = k1 THEN v1 ELSE v2]
Args3(k1, v1, k2, v2, k3, v3) ==
    [a \in {k1, k2, k3} |-> IF a = k1 THEN v1 ELSE IF a = k2 THEN v2 ELSE v3]

Moscow == JStr(<<Word("Moscow")>>)

\* argument bags of either weather tool
LocationArgs ==
    { Args2("lat", JNum(LatA), "lon", JNum(LonA)),
      Args1("location", JStr(<<Numeral(LatA), Numeral(LonA)>>)),
      Args1("location", Moscow),
      NoArgs,
      Args1("location", JStr(<<>>)),
      Args1("location", JStr(<<Word("Paris"), Word("France")>>)),
      Args2("lat", JStr(<<Word("north")>>), "lon", JNum(LonA)),
      Args2("lat", JNum(LatA), "lon", JNull),
      Args2("lat", JNum(LatA), "location", Moscow),
      Args3("lat", JNum(LatA), "lon", JNum(LonA), "location", Moscow) }

\* argument bags of get_weather_forecast that name the days
DaysArgs ==
    { Args3("lat", JNum(LatA), "lon", JNum(LonA), "days", d) :
        d \in {JNum(-2), JNum(0), JNum(3), JNum(30), JStr(<<Numeral(3)>>),
               JStr(<<Word("three")>>), JNull} }
    \cup { Args2("location", Moscow, "days", JStr(<<Word("three")>>)) }

ToolCall(name, arguments) == [name |-> name, arguments |-> arguments]

AllCalls ==
    { ToolCall("get_current_weather", a) : a \in LocationArgs }
    \cup { ToolCall("get_weather_forecast", a) : a \in LocationArgs \cup DaysArgs }
    \cup { ToolCall("search_location", a) :
             a \in {NoArgs, Args1("city_name", JStr(<<>>)), Args1("city_name", Moscow)} }
    \cup { ToolCall("get_weather", NoArgs) }

Response(transport, status, body, data) ==
    [transport |-> transport, status |-> status, body |-> body, data |-> data,
     text |-> IF transport = "ok" /\ status # 200 THEN "reason" ELSE ""]

Transports == {"connection refused", "dns failure", "timeout"}
BodyFailures == {"client_error", "decode_error", "timeout"}
\* the answers of the forecast API to the request req; versions tells apart the
\* payloads it may answer one request with
WeatherResponses(req, versions) ==
    { Response(t, 0, "ok", NoData) : t \in Transports }
    \cup { Response("ok", 200, "ok", [shape |-> sh, version |-> v, request |-> req]) :
             sh \in {"ok", "null_number", "string_number"}, v \in versions }
    \cup { Response("ok", 200, b, NoData) : b \in BodyFailures }
    \cup { Response("ok", st, b, NoData) : st \in {400, 404}, b \in {"ok"} \cup BodyFailures }
    \cup { Response("ok", st, "ok", NoData) : st \in {429, 500, 503} }

Match(lat, lon, admin1, country) ==
    [results |-> "match", latitude |-> lat, longitude |-> lon,
     name |-> "Moscow", admin1 |-> admin1, country |-> country]

\* the answers of the geocoding API
GeocodeResponses ==
    { Response(t, 0, "ok", NoMatch) : t \in Transports }
    \cup { Response("ok", 200, "ok", d) :
             d \in {NoMatch, [NoMatch EXCEPT !.results = "absent"],
                    Match(Some(LatG), Some(LonG), "Moscow Oblast", "Russia"),
                    Match(Some(LatG), Some(LonG), "", ""),
                    Match(None, None, "", "Russia")} }
    \cup { Response("ok", 200, b, NoMatch) : b \in BodyFailures }
    \cup { Response("ok", st, "ok", NoMatch) : st \in {404, 500} }

(***************************************************************************)
(* The server as a state machine.  call[p] is the call in slot p: a slot   *)
(* takes a new call when the one before has ended.  invoked counts the     *)
(* calls made; stores is the history of the cache stores of the calls.     *)
(***************************************************************************)
\* calls made in one run, one at a time
MaxCalls == 2
\* calls made in one run, two at a time
MaxOverlappingCalls == 3

(***************************************************************************)
(* The start of the server: importing server_remote runs the class body of *)
(* Config on the environment, configures logging, validates and builds the *)
(* components.  A variable of the environment is "unset" or has a value.   *)
(***************************************************************************)
Envs ==
    [YANDEX_API_KEY : {"unset", "", "key"},
     DEFAULT_LANG : {"unset", "en_US"},
     CACHE_TTL : {"unset", "600", "ten minutes"},
     LOG_LEVEL : {"unset", "DEBUG", "VERBOSE"},
     REQUEST_TIMEOUT : {"unset", "10", "ten"}]

\* os.getenv(name, default)
Getenv(env, name, default) == IF env[name] = "unset" THEN default ELSE env[name]

\* the class body of Config: its attributes, or the exception of int()
LoadConfig(env) ==
    IF \/ Getenv(env, "CACHE_TTL", "600") \notin {"600"}
       \/ Getenv(env, "REQUEST_TIMEOUT", "10") \notin {"10"}
    THEN Raised(Exc("ValueError", Msg("invalid literal for int()", 0, "")))
    ELSE Returned([YANDEX_API_KEY |-> Getenv(env, "YANDEX_API_KEY", ""),
                   YANDEX_API_URL |-> "https://api.weather.yandex.ru/v2/forecast",
                   DEFAULT_LANG |-> Getenv(env, "DEFAULT_LANG", "ru_RU"),
                   DEFAULT_LOCATION |-> "55.75396,37.620393",
                   CACHE_TTL |-> Getenv(env, "CACHE_TTL", "600"),
                   LOG_LEVEL |-> Getenv(env, "LOG_LEVEL", "INFO"),
                   REQUEST_TIMEOUT |-> Getenv(env, "REQUEST_TIMEOUT", "10")])

\* Config.validate
Validate(config) ==
    IF config.YANDEX_API_KEY = ""
    THEN Raised(Exc("ValueError", Msg("YANDEX_API_KEY is not set", 0, "")))
    ELSE Returned(config)

\* WeatherProvider.__init__: the attributes of Config that it reads
WeatherProviderInit(config) ==
    IF {"OPEN_METEO_FORECAST_URL", "OPEN_METEO_GEOCODING_URL", "REQUEST_TIMEOUT"}
         \subseteq DOMAIN config
    THEN Returned(config)
    ELSE Raised(Exc("AttributeError", Msg("type object 'Config' has no attribute", 0, "")))

\* the import of server_remote, from "from config import Config" to the
\* creation of the components
ModuleInit(env) ==
    LET config == LoadConfig(env)
    IN  IF config.raised # None THEN config
        ELSE IF config.value[1].LOG_LEVEL \notin {"DEBUG", "INFO"}
        THEN \* getattr(logging, Config.LOG_LEVEL)
             Raised(Exc("AttributeError", Msg("module 'logging' has no attribute", 0, "")))
        ELSE IF Validate(config.value[1]).raised # None THEN Validate(config.value[1])
        ELSE WeatherProviderInit(config.value[1])

\* the server as the calls below find it: imported, its components built
Serving ==
    [pc |-> "running", error |-> None,
     env |-> [YANDEX_API_KEY |-> "key", DEFAULT_LANG |-> "unset", CACHE_TTL |-> "unset",
              LOG_LEVEL |-> "unset", REQUEST_TIMEOUT |-> "unset"]]

Slots == {1, 2}

Init ==
    /\ CacheInit
    /\ startup = Serving
    /\ call = [p \in Slots |-> IdleCall]
    /\ invoked = 0
    /\ stores = <<>>

Apply(p, e) ==
    /\ call' = [call EXCEPT ![p] = e.call]
    /\ cache' = e.cache
    /\ stores' = e.stores
    /\ UNCHANGED <<now, lastSet, cacheOp, startup, lazy>>

\* the protocol layer delivers a tool call, one of at most limit
CallTool(p, name, arguments, limit) ==
    /\ call[p].pc \in {"idle", "done", "raised"}
    /\ invoked < limit
    /\ invoked' = invoked + 1
    /\ Apply(p, Start(name, arguments, cache, stores, now))

\* geocode_location is answered inside parse_location
GeocodeAnswered(p, resp) ==
    /\ call[p].pc = "geocoding"
    /\ Apply(p, AfterGeocode(call[p], resp, cache, stores, now))
    /\ UNCHANGED invoked

\* geocode_location is answered inside search_location
SearchAnswered(p, resp) ==
    /\ call[p].pc = "searching"
    /\ Apply(p, AfterSearch(call[p], resp, cache, stores))
    /\ UNCHANGED invoked

\* get_current_weather / get_forecast is answered
WeatherAnswered(p, resp) ==
    /\ call[p].pc = "fetching"
    /\ Apply(p, AfterFetch(call[p], resp, cache, stores, now))
    /\ UNCHANGED invoked

\* the task of the call is cancelled at its await
Cancel(p) ==
    /\ call[p].pc \in {"geocoding", "searching", "fetching"}
    /\ Apply(p, Effect(Handle(call[p], Exc("CancelledError", NoMsg)), cache, stores))
    /\ UNCHANGED invoked

\* time.time() moves on while the server runs
Elapse == Tick

\* the answers of the geocoding API in the runs that take every call and
\* every answer of the forecast API: one of each outcome of geocode_location
SomeGeocodeResponses ==
    { Response("timeout", 0, "ok", NoMatch),
      Response("ok", 200, "ok", NoMatch),
      Response("ok", 200, "ok", Match(Some(LatG), Some(LonG), "Moscow Oblast", "Russia")),
      Response("ok", 200, "ok", Match(None, None, "", "Russia")) }

\* one call at a time, every call and every answer of the forecast API
Next ==
    \/ Elapse
    \/ \E tc \in AllCalls : CallTool(1, tc.name, tc.arguments, MaxCalls)
    \/ \E resp \in SomeGeocodeResponses : GeocodeAnswered(1, resp)
    \/ \E resp \in SomeGeocodeResponses : SearchAnswered(1, resp)
    \/ \E resp \in WeatherResponses(call[1].sent, {1}) : WeatherAnswered(1, resp)
    \/ Cancel(1)

Spec == Init /\ [][Next]_vars

\* the calls and answers of the runs that take every location and every
\* answer of the geocoding API
\* 100 N, 200 E: no point of the globe
LatX == 100 * UnitsPerDegree
LonX == 200 * UnitsPerDegree
\* argument bags whose coordinate is out of range
OutOfRangeArgs ==
    { Args2("lat", JNum(LatX), "lon", JNum(LonX)),
      Args1("location", JStr(<<Numeral(LatX), Numeral(LonX)>>)) }

ResolverCalls ==
    { ToolCall("get_current_weather", a) : a \in LocationArgs \cup OutOfRangeArgs }
    \cup { ToolCall("get_weather_forecast", Args1("location", Moscow)) }
    \cup { ToolCall("search_location", a) :
             a \in {NoArgs, Args1("city_name", JStr(<<>>)), Args1("city_name", Moscow)} }

ResolverWeatherResponses(req) ==
    { Response("connection refused", 0, "ok", NoData),
      Response("ok", 200, "ok", [shape |-> "ok", version |-> 1, request |-> req]) }

\* one call at a time, every location and every answer of the geocoding API
ResolverNext ==
    \/ Elapse
    \/ \E tc \in ResolverCalls : CallTool(1, tc.name, tc.arguments, MaxCalls)
    \/ \E resp \in GeocodeResponses : GeocodeAnswered(1, resp)
    \/ \E resp \in GeocodeResponses : SearchAnswered(1, resp)
    \/ \E resp \in ResolverWeatherResponses(call[1].sent) : WeatherAnswered(1, resp)
    \/ Cancel(1)

ResolverSpec == Init /\ [][ResolverNext]_vars

\* the calls and answers of the runs with two calls at a time
OverlappingCalls ==
    { ToolCall("get_current_weather", Args2("lat", JNum(LatA), "lon", JNum(LonA))),
      ToolCall("get_current_weather", Args1("location", Moscow)),
      ToolCall("search_location", Args1("city_name", Moscow)) }

OverlappingWeatherResponses(req) ==
    { Response("timeout", 0, "ok", NoData), Response("ok", 429, "ok", NoData) }
    \cup { Response("ok", 200, "ok", [shape |-> "ok", version |-> v, request |-> req]) :
             v \in {1, 2} }

OverlappingGeocodeResponses ==
    { Response("timeout", 0, "ok", NoMatch),
      Response("ok", 200, "ok", Match(Some(LatA), Some(LonA), "", "Russia")) }

\* two calls at a time: each runs from await to await, in any interleaving
OverlappingNext ==
    \/ Elapse
    \/ \E p \in Slots :
          \/ \E tc \in OverlappingCalls :
                CallTool(p, tc.name, tc.arguments, MaxOverlappingCalls)
          \/ \E resp \in OverlappingGeocodeResponses : GeocodeAnswered(p, resp)
          \/ \E resp \in OverlappingGeocodeResponses : SearchAnswered(p, resp)
          \/ \E resp \in OverlappingWeatherResponses(call[p].sent) : WeatherAnswered(p, resp)
          \/ Cancel(p)

OverlappingSpec == Init /\ [][OverlappingNext]_vars
\* two calls at a time, MaxCalls in all
FairNext ==
    \/ Elapse
    \/ \E p \in Slots :
          \/ \E tc \in OverlappingCalls : CallTool(p, tc.name, tc.arguments, MaxCalls)
          \/ \E resp \in OverlappingGeocodeResponses : GeocodeAnswered(p, resp)
          \/ \E resp \in OverlappingGeocodeResponses : SearchAnswered(p, resp)
          \/ \E resp \in OverlappingWeatherResponses(call[p].sent) : WeatherAnswered(p, resp)
          \/ Cancel(p)

\* the same, where every request that a call awaits is answered in the end:
\* by the service or, after Config.REQUEST_TIMEOUT, by the timeout of the
\* session (one of the answers), and the event loop then resumes the call
FairSpec ==
    /\ Init /\ [][FairNext]_vars
    /\ \A p \in Slots :
          /\ WF_vars(\E resp \in OverlappingGeocodeResponses : GeocodeAnswered(p, resp))
          /\ WF_vars(\E resp \in OverlappingGeocodeResponses : SearchAnswered(p, resp))
          /\ WF_vars(\E resp \in OverlappingWeatherResponses(call[p].sent) :
                        WeatherAnswered(p, resp))
\* calls made in one run at one coordinate
MaxVariantCalls == 3

\* the current weather and forecasts of 0, 1, 16 and 30 days at one coordinate
VariantCalls ==
    { ToolCall("get_current_weather", Args2("lat", JNum(LatA), "lon", JNum(LonA))) }
    \cup { ToolCall("get_weather_forecast",
                    Args3("lat", JNum(LatA), "lon", JNum(LonA), "days", JNum(d))) :
             d \in {0, 1, 16, 30} }

\* one call at a time, both kinds and four day counts at one coordinate
VariantNext ==
    \/ Elapse
    \/ \E tc \in VariantCalls : CallTool(1, tc.name, tc.arguments, MaxVariantCalls)
    \/ \E resp \in ResolverWeatherResponses(call[1].sent) : WeatherAnswered(1, resp)

VariantSpec == Init /\ [][VariantNext]_vars

\* the cache driven through its interface alone
CacheSpec == Init /\ [][CacheNext]_vars

\* (lat, lon, cache_type) of the calls made on two caches alike
TwinArgs == {<<3, 2048, "current">>, <<3, 2048, "forecast_3days">>}

\* get on the cache and on the cache that is never swept
TwinGet ==
    \E a \in TwinArgs :
        /\ cache' = GetCache(cache, now, a[1], a[2], a[3])
        /\ lazy' = GetCache(lazy, now, a[1], a[2], a[3])
        /\ cacheOp' = [op |-> "get", lat |-> a[1], lon |-> a[2], type |-> a[3],
                       value |-> None,
                       ret |-> GetResult(cache, now, a[1], a[2], a[3]),
                       had |-> MakeKey(a[1], a[2], a[3]) \in DOMAIN cache,
                       removed |-> Removed(cache, cache')]
        /\ UNCHANGED <<now, lastSet, call, invoked, stores, startup>>

\* set on both
TwinSet ==
    \E a \in TwinArgs, v \in CacheValues :
        /\ cache' = SetCache(cache, now, a[1], a[2], v, a[3])
        /\ lazy' = SetCache(lazy, now, a[1], a[2], v, a[3])
        /\ cacheOp' = [op |-> "set", lat |-> a[1], lon |-> a[2], type |-> a[3],
                       value |-> Some(v), ret |-> None,
                       had |-> MakeKey(a[1], a[2], a[3]) \in DOMAIN cache,
                       removed |-> 0]
        /\ UNCHANGED <<now, lastSet, call, invoked, stores, startup>>

\* cleanup on the cache alone
TwinCleanup ==
    /\ cache' = CleanupCache(cache, now)
    /\ cacheOp' = [NoOp EXCEPT !.op = "cleanup", !.removed = Removed(cache, cache')]
    /\ UNCHANGED <<now, lastSet, call, invoked, stores, startup, lazy>>

TwinNext ==
    \/ Tick
    \/ TwinGet
    \/ TwinSet
    \/ TwinCleanup

\* one sequence of sets, gets and clock advances on two caches, with sweeps
\* of the first at any point
TwinSpec == Init /\ [][TwinNext]_vars

\* the process is started in some environment
StartupInit ==
    /\ CacheInit
    /\ call = [p \in Slots |-> IdleCall]
    /\ invoked = 0
    /\ stores = <<>>
    /\ startup \in {[pc |-> "importing", error |-> None, env |-> e] : e \in Envs}

\* python server_remote.py: the module is imported
Startup ==
    /\ startup.pc = "importing"
    /\ startup' = LET r == ModuleInit(startup.env)
                  IN  [startup EXCEPT !.pc = IF r.raised = None THEN "running" ELSE "failed",
                                      !.error = r.raised]
    /\ UNCHANGED <<now, cache, lastSet, cacheOp, call, invoked, stores, lazy>>

\* the start of the server in every environment
StartupSpec == StartupInit /\ [][Startup]_vars

(***************************************************************************)
(* What a call that has ended returned.                                    *)
(***************************************************************************)
Ended(c) == c.pc \in {"done", "raised"}
IsWeatherCall(c) == c.name \in {"get_current_weather", "get_weather_forecast"}
Cancelled(c) == c.raised # None /\ c.raised[1].type = "CancelledError"
OneTextBlock(c) == Len(c.result) = 1 /\ c.result[1].type = "text"
ReturnedText(c) == c.result[1].text
IsWeatherText(text) == text.form \in {"current", "forecast"}

(***************************************************************************)
(* C1.  A call of call_tool that is not cancelled never raises to its      *)
(* caller and returns exactly one text content block, whatever the tool    *)
(* name, the arguments and the outcomes of the resolver, the cache, the    *)
(* upstream client and the formatter.                                      *)
(***************************************************************************)
CallToolNeverRaises ==
    \A p \in Slots :
        (Ended(call[p]) /\ ~Cancelled(call[p])) =>
            /\ call[p].pc = "done"
            /\ call[p].raised = None
            /\ OneTextBlock(call[p])

\* a call has ended in the handler of Exception: a timeout of the weather request
UnexpectedErrorReturned ==
    \E p \in Slots :
        /\ call[p].pc = "done"
        /\ call[p].weatherRequests = 1
        /\ OneTextBlock(call[p])
        /\ ReturnedText(call[p]).form = "Unexpected"

(***************************************************************************)
(* C3.  stores[i] is the i-th successful fetch-and-store.  A call is       *)
(* "later" than it when it was made after it (i <= storesAtCall), for the  *)
(* same tool, coordinate and days, and "within the TTL window" when its    *)
(* cache lookup is at most CACHE_TTL after the store.  The server never    *)
(* clears the cache.                                                       *)
(***************************************************************************)
CallCacheType(c) ==
    IF c.name = "get_current_weather" THEN "current" ELSE ForecastCacheType(c.days)

\* the stores that call c came after, for its tool, coordinate and days, and
\* whose TTL window holds its lookup
EarlierStores(c) ==
    { i \in 1..c.storesAtCall :
        /\ stores[i].type = CallCacheType(c)
        /\ stores[i].lat = c.lat[1] /\ stores[i].lon = c.lon[1]
        /\ c.lookupTime - stores[i].time <= CACHE_TTL }

LookedUp(c) == IsWeatherCall(c) /\ c.lookupTime >= 0

\* the last store under the key of c that was made before its lookup
LastStoreBeforeLookup(c) ==
    LET same == { i \in 1..c.storesAtLookup :
                    MakeKey(stores[i].lat, stores[i].lon, stores[i].type)
                      = MakeKey(c.lat[1], c.lon[1], CallCacheType(c)) }
    IN  CHOOSE i \in same : \A j \in same : j <= i

\* C3 as claimed: a later call within the TTL window returns the same text as
\* the earlier successful call, in one block, and sends no weather request.
LaterCallReturnsSameText ==
    \A p \in Slots :
        (Ended(call[p]) /\ ~Cancelled(call[p]) /\ LookedUp(call[p])) =>
            \A i \in EarlierStores(call[p]) :
                /\ call[p].weatherRequests = 0
                /\ OneTextBlock(call[p])
                /\ ReturnedText(call[p]) = stores[i].text

\* C3 as amended: a later call within the TTL window sends no weather request
\* and returns, in one block, the text cached under its key at its lookup: the
\* text of the last store made under that key, which is the earlier call's
\* unless a call that had missed before stored after it.
LaterCallReturnsCachedText ==
    \A p \in Slots :
        (LookedUp(call[p]) /\ EarlierStores(call[p]) # {}) =>
            /\ call[p].weatherRequests = 0
            /\ call[p].pc = "done"
            /\ OneTextBlock(call[p])
            /\ ReturnedText(call[p]) = stores[LastStoreBeforeLookup(call[p])].text

\* a later call was answered from the cache with the text of an earlier one
LaterCallHit ==
    \E p \in Slots :
        /\ call[p].pc = "done"
        /\ LookedUp(call[p])
        /\ EarlierStores(call[p]) # {}
        /\ call[p].weatherRequests = 0
        /\ IsWeatherText(ReturnedText(call[p]))


(***************************************************************************)
(* The errors of the provider by the names the specification gives them.   *)
(***************************************************************************)
Answered(c) == c.answer.transport # "none"
AnsweredWithStatus(c) == c.answer.transport = "ok"
InvalidRequest == Exc("ValueError", Msg("Invalid request parameters", 0, ""))
RateLimited == Exc("ValueError", Msg("Rate limit exceeded. Try again later", 0, ""))
UpstreamUnavailable == Exc("ValueError", Msg("Open-Meteo server error", 0, ""))
UpstreamError(status) == Exc("ValueError", Msg("API error", status, ""))
Unclassified(status) == status \notin {200, 400, 429} /\ status < 500

\* the step of slot p in which the weather API answers its fetch
FetchAnswered(p) == call[p].pc = "fetching" /\ Answered(call'[p])

(***************************************************************************)
(* C7.  When the weather API answers the fetch of get_current_weather or   *)
(* get_weather_forecast with HTTP 429, the call returns one text block     *)
(* holding the rate-limit error, which is not the unexpected-error text    *)
(* and differs from the text of every other answer (400, 5xx, another      *)
(* status, a transport failure), and the step leaves the cache as it was.  *)
(***************************************************************************)
RateLimitSurfacesAndSkipsCache ==
    [][\A p \in Slots :
        (FetchAnswered(p) /\ AnsweredWithStatus(call'[p]) /\ call'[p].answer.status = 429) =>
            /\ call'[p].pc = "done"
            /\ OneTextBlock(call'[p])
            /\ ReturnedText(call'[p]) = ErrorText(RateLimited.msg)
            /\ ReturnedText(call'[p]).form # "Unexpected"
            /\ \A r \in WeatherResponses(call[p].sent, {1}) :
                   (r.transport # "ok" \/ r.status # 429) =>
                       AfterFetch(call[p], r, cache, stores, now).call.result # call'[p].result
            /\ cache' = cache
            /\ stores' = stores]_vars

\* a forecast call has ended with the rate-limit text and nothing is cached
\* for its key
RateLimitedCallEnded ==
    \E p \in Slots :
        /\ call[p].pc = "done"
        /\ call[p].name = "get_weather_forecast"
        /\ AnsweredWithStatus(call[p]) /\ call[p].answer.status = 429
        /\ ReturnedText(call[p]) = ErrorText(RateLimited.msg)
        /\ MakeKey(call[p].lat[1], call[p].lon[1], CallCacheType(call[p])) \notin DOMAIN cache

(***************************************************************************)
(* C8.  The outcome of fetchCurrent and fetchForecast by HTTP status.      *)
(***************************************************************************)
StatusOutcome(resp) ==
    IF resp.status = 200 THEN Returned(resp.data)
    ELSE IF resp.status = 400 THEN Raised(InvalidRequest)
    ELSE IF resp.status = 429 THEN Raised(RateLimited)
    ELSE IF resp.status >= 500 THEN Raised(UpstreamUnavailable)
    ELSE Raised(UpstreamError(resp.status))

\* the provider reads the body for 200, 400 and the unclassified statuses
BodyIsRead(resp) == resp.status = 200 \/ resp.status = 400 \/ Unclassified(resp.status)

RaisedMsg(c) == c.provided.raised[1].msg
BodyReadOk(c) == AnsweredWithStatus(c) /\ c.answer.body = "ok"

\* C9 as claimed: the error for a 400 carries the response body, the error
\* for an unclassified status carries the status code and the body, and both
\* reach the error text of the dispatcher.
UpstreamErrorsCarryBody ==
    \A p \in Slots :
        (BodyReadOk(call[p]) /\ call[p].pc = "done") =>
            /\ call[p].answer.status = 400 =>
                   /\ RaisedMsg(call[p]).cause = call[p].answer.text
                   /\ ReturnedText(call[p]) = ErrorText(RaisedMsg(call[p]))
            /\ Unclassified(call[p].answer.status) =>
                   /\ RaisedMsg(call[p]).status = call[p].answer.status
                   /\ RaisedMsg(call[p]).cause = call[p].answer.text
                   /\ ReturnedText(call[p]) = ErrorText(RaisedMsg(call[p]))

\* C9 as amended: the error for a 400 is the fixed invalid-parameters message
\* and the error for an unclassified status carries the status code; neither
\* carries the response body, which is only logged; both reach the error
\* text of the dispatcher.
UpstreamErrorsCarryStatusOnly ==
    \A p \in Slots :
        (BodyReadOk(call[p]) /\ call[p].pc = "done") =>
            /\ call[p].answer.status = 400 =>
                   /\ call[p].provided = Raised(InvalidRequest)
                   /\ RaisedMsg(call[p]).cause # call[p].answer.text
                   /\ ReturnedText(call[p]) = ErrorText(RaisedMsg(call[p]))
            /\ Unclassified(call[p].answer.status) =>
                   /\ RaisedMsg(call[p]).status = call[p].answer.status
                   /\ RaisedMsg(call[p]).text = "API error"
                   /\ RaisedMsg(call[p]).cause # call[p].answer.text
                   /\ ReturnedText(call[p]) = ErrorText(RaisedMsg(call[p]))

\* get_current_weather has ended with the text of the error for a 404
CurrentAnswered404 ==
    \E p \in Slots :
        /\ call[p].pc = "done"
        /\ call[p].name = "get_current_weather"
        /\ BodyReadOk(call[p]) /\ call[p].answer.status = 404
        /\ call[p].answer.text # ""
        /\ ReturnedText(call[p]) = ErrorText(Msg("API error", 404, ""))

(***************************************************************************)
(* C10.  Every transport-level failure of a weather request (connection    *)
(* refused, DNS failure, expiry of the request timeout) is raised by the   *)
(* provider as the network error carrying the description of the cause,    *)
(* and the call returns it as the classified error text, not as the        *)
(* unexpected-error text.                                                  *)
(***************************************************************************)
TransportFailureIsNetworkError ==
    \A p \in Slots :
        (Answered(call[p]) /\ ~AnsweredWithStatus(call[p])) =>
            /\ call[p].provided =
                   Raised(NetworkError(TransportError(call[p].answer.transport)))
            /\ call[p].pc = "done"
            /\ ReturnedText(call[p]).form = "Error"
            /\ ReturnedText(call[p]).msg.text = "Network error"


(***************************************************************************)
(* What the geocoder answered a call and what the resolver made of it.     *)
(***************************************************************************)
GeocodeAnsweredCall(c) == c.geoAnswer.transport # "none"
HasBoth(arguments) == "lat" \in DOMAIN arguments /\ "lon" \in DOMAIN arguments
LocationOf(c) == ArgGet(c.arguments, "location")
IsNumber(v) == v # None /\ v[1] \in Int

(***************************************************************************)
(* C11.  No automatic retry: within one tool invocation at most one        *)
(* request goes to the weather API and at most one to the geocoding API,   *)
(* whatever their outcome; a call that has got an answer, be it an error   *)
(* status, a network failure or a timeout, awaits no further answer of     *)
(* that API.                                                               *)
(***************************************************************************)
NoAutomaticRetry ==
    \A p \in Slots :
        /\ call[p].weatherRequests <= 1
        /\ call[p].geocodeRequests <= 1
        /\ Answered(call[p]) => call[p].pc # "fetching"
        /\ GeocodeAnsweredCall(call[p]) => call[p].pc \notin {"geocoding", "searching"}

\* a call has ended after one geocoding request that found nothing and one
\* weather request that timed out
EndedAfterOneFailedRequestEach ==
    \E p \in Slots :
        /\ call[p].pc = "done"
        /\ call[p].geocodeRequests = 1
        /\ call[p].geocoded = Returned(None)
        /\ call[p].weatherRequests = 1
        /\ call[p].answer.transport = "timeout"


(***************************************************************************)
(* C12.  The resolver (parse_location) never fails: for every location     *)
(* (absent, empty, "lat,lon", text with a comma that is no pair, a place   *)
(* name) and every outcome of the geocoder it raises nothing and returns   *)
(* a pair of two numbers, and the configured default coordinate when no    *)
(* earlier step yields a coordinate.                                       *)
(***************************************************************************)
\* the call took its coordinates from parse_location and is past it
LeftResolver(c) ==
    /\ IsWeatherCall(c)
    /\ ~HasBoth(c.arguments)
    /\ c.pc \in {"fetching", "done"}

ResolverNeverFails ==
    \A p \in Slots :
        LeftResolver(call[p]) =>
            /\ call[p].geocoded.raised = None
            /\ IsNumber(call[p].lat) /\ IsNumber(call[p].lon)
            /\ (\/ ParseLocation(LocationOf(call[p])).to = "default"
                \/ call[p].geocoded = Returned(None)) =>
                   <<call[p].lat, call[p].lon>> = DefaultCoordinate

(***************************************************************************)
(* C13.  geocode_location never raises: for every outcome of the           *)
(* geocoding request (200 with results, 200 with empty or missing          *)
(* results, a status other than 200, a transport failure, a timeout) it    *)
(* returns a (latitude, longitude, display name) result or none, and none  *)
(* exactly when the status is not 200, the result set is empty or the      *)
(* transport failed.                                                       *)
(***************************************************************************)
\* the answer is one of the outcomes the claim lists
ListedOutcome(resp) == resp.transport # "ok" \/ resp.body = "ok"
IsMatch(resp) ==
    resp.transport = "ok" /\ resp.status = 200 /\ resp.body = "ok" /\ resp.data.results = "match"

GeocodeNeverRaises ==
    \A p \in Slots :
        (GeocodeAnsweredCall(call[p]) /\ ListedOutcome(call[p].geoAnswer)) =>
            /\ call[p].geocoded.raised = None
            /\ call[p].geocoded.value # None
            /\ call[p].geocoded.value[1] = None <=> ~IsMatch(call[p].geoAnswer)

(***************************************************************************)
(* C14.  The order of the resolver's steps: a location with a comma whose  *)
(* first two parts parse as numbers is returned as that pair with no       *)
(* geocoding request; any other non-empty string causes exactly one        *)
(* geocoding request, whose coordinate is returned on a match; an absent   *)
(* or empty location, and a geocoding miss or failure, yield the default   *)
(* coordinate; an absent or empty location causes no geocoding request.    *)
(***************************************************************************)
ResolverStepOrder ==
    \A p \in Slots :
        LeftResolver(call[p]) =>
            LET c == call[p]
                r == ParseLocation(LocationOf(c))
            IN  /\ r.to = "pair" =>
                       /\ c.geocodeRequests = 0
                       /\ <<c.lat, c.lon>> = <<r.lat, r.lon>>
                /\ r.to = "geocode" =>
                       /\ c.geocodeRequests = 1
                       /\ <<c.lat, c.lon>> =
                              IF IsMatch(c.geoAnswer)
                              THEN <<c.geoAnswer.data.latitude, c.geoAnswer.data.longitude>>
                              ELSE DefaultCoordinate
                /\ r.to = "default" =>
                       /\ c.geocodeRequests = 0
                       /\ <<c.lat, c.lon>> = DefaultCoordinate


(***************************************************************************)
(* C15.  In get_current_weather and get_weather_forecast, when lat and lon *)
(* are both among the arguments they are the coordinate, whatever the      *)
(* location argument is, and neither the geocoder nor the default          *)
(* coordinate is consulted; when one of them is missing the coordinate is  *)
(* what the resolver makes of the optional location alone.                 *)
(***************************************************************************)
\* what parse_location returns for the call, the geocoder having answered
ResolverResult(c) ==
    LET r == ParseLocation(LocationOf(c))
    IN  IF r.to = "pair" THEN <<r.lat, r.lon>>
        ELSE IF r.to = "geocode" /\ c.geocoded.value # None /\ c.geocoded.value[1] # None
        THEN <<c.geocoded.value[1][1].lat, c.geocoded.value[1][1].lon>>
        ELSE DefaultCoordinate

ExplicitCoordinatesBypassResolver ==
    \A p \in Slots :
        LET c == call[p] IN
        (IsWeatherCall(c) /\ c.pc \in {"fetching", "done"}) =>
            IF HasBoth(c.arguments)
            THEN /\ c.geocodeRequests = 0
                 /\ ~GeocodeAnsweredCall(c)
                 /\ IF PyFloat(c.arguments["lat"]).raised = None
                       /\ PyFloat(c.arguments["lon"]).raised = None
                    THEN <<c.lat, c.lon>> = <<PyFloat(c.arguments["lat"]).value,
                                             PyFloat(c.arguments["lon"]).value>>
                    ELSE c.lat = None /\ c.lon = None /\ c.weatherRequests = 0
            ELSE /\ c.geocodeRequests =
                        IF ParseLocation(LocationOf(c)).to = "geocode" THEN 1 ELSE 0
                 /\ c.geocoded.raised = None => <<c.lat, c.lon>> = ResolverResult(c)

\* a call with lat, lon and a place name has fetched the weather at lat, lon
\* without a geocoding request
FetchedAtExplicitCoordinates ==
    \E p \in Slots :
        /\ call[p].pc = "done"
        /\ IsWeatherCall(call[p])
        /\ HasBoth(call[p].arguments)
        /\ LocationOf(call[p]) = Moscow
        /\ call[p].geocodeRequests = 0
        /\ call[p].weatherRequests = 1
        /\ call[p].sent.latitude = LatA /\ call[p].sent.longitude = LonA
        /\ <<Some(LatA), Some(LonA)>> # DefaultCoordinate


(***************************************************************************)
(* C16.  For every integer days argument of get_weather_forecast the       *)
(* forecast_days sent upstream is min(max(days, 1), 16) (0 gives 1, 30     *)
(* gives 16, a negative number gives 1); without a days argument it is 3;  *)
(* no forecast request is ever sent with forecast_days outside 1..16.      *)
(***************************************************************************)
SentForecast(c) == c.name = "get_weather_forecast" /\ c.sent # NoRequest

ForecastDaysClamped ==
    \A p \in Slots :
        LET c == call[p] IN
        /\ c.sent.kind = "daily" <=> SentForecast(c)
        /\ SentForecast(c) =>
            /\ c.sent.forecast_days \in 1..16
            /\ "days" \notin DOMAIN c.arguments => c.sent.forecast_days = 3
            /\ ("days" \in DOMAIN c.arguments /\ c.arguments["days"].kind = "number") =>
                   c.sent.forecast_days = Min(Max(c.arguments["days"].num, 1), 16)

\* a forecast asked for 30 days has been requested for 16
Sent16DaysFor30 ==
    \E p \in Slots :
        /\ SentForecast(call[p])
        /\ "days" \in DOMAIN call[p].arguments
        /\ call[p].arguments["days"] = JNum(30)
        /\ call[p].sent.forecast_days = 16


(***************************************************************************)
(* C17.  search_location never reads or writes the cache: for every        *)
(* city_name and every outcome of the geocoder each step of the call       *)
(* leaves the cache mapping as it was and makes no cache lookup, and every *)
(* search_location with a city name, a repeated one too, sends a new       *)
(* geocoding request.                                                      *)
(***************************************************************************)
IsSearch(c) == c.name = "search_location"
CityOf(c) == ArgGet(c.arguments, "city_name")

SearchBypassesCache ==
    [][\A p \in Slots :
        (IsSearch(call'[p]) /\ call'[p] # call[p]) =>
            /\ cache' = cache
            /\ stores' = stores
            /\ call'[p].lookupTime = -1
            /\ call'[p].weatherRequests = 0
            /\ (invoked' = invoked + 1 /\ Truthy(CityOf(call'[p]))) =>
                   /\ call'[p].pc = "searching"
                   /\ call'[p].geocodeRequests = 1]_vars

\* after a weather call has filled the cache, a search has sent its request,
\* has found the place and has left the cache filled
SearchedWithFilledCache ==
    \E p \in Slots :
        /\ IsSearch(call[p])
        /\ call[p].pc = "done"
        /\ call[p].geocodeRequests = 1
        /\ ReturnedText(call[p]).form = "found"
        /\ Len(stores) = 1
        /\ MakeKey(stores[1].lat, stores[1].lon, stores[1].type) \in DOMAIN cache


(***************************************************************************)
(* C18.  search_location has exactly three outcomes, each one text block:  *)
(* without a city_name, or with an empty one, the labelled argument error  *)
(* and no geocoding request; on a match of the geocoder the display name   *)
(* and the coordinates; on a result of none (no match, a soft failure of   *)
(* the geocoding) the "not found" text that names the city; never a        *)
(* raised fault.                                                           *)
(***************************************************************************)
CityNotGivenText == ErrorText(Msg("city name not given", 0, ""))

SearchHasThreeOutcomes ==
    \A p \in Slots :
        LET c == call[p] IN
        (IsSearch(c) /\ Ended(c) /\ ~Cancelled(c)) =>
            /\ c.pc = "done"
            /\ OneTextBlock(c)
            /\ IF ~Truthy(CityOf(c))
               THEN ReturnedText(c) = CityNotGivenText /\ c.geocodeRequests = 0
               ELSE /\ c.geocodeRequests = 1
                    /\ IF IsMatch(c.geoAnswer)
                       THEN /\ ReturnedText(c).form = "found"
                            /\ ReturnedText(c).place.full_name = FullName(c.geoAnswer.data)
                            /\ ReturnedText(c).place.lat = c.geoAnswer.data.latitude
                            /\ ReturnedText(c).place.lon = c.geoAnswer.data.longitude
                       ELSE ReturnedText(c) = NotFoundText(CityOf(c))


(***************************************************************************)
(* C19.  For every tool name other than get_current_weather,               *)
(* get_weather_forecast and search_location the call ends at once in one   *)
(* error text block that says the tool is unknown, without the resolver,   *)
(* the geocoder, the weather API or the formatter, and it leaves the cache *)
(* as it was.                                                              *)
(***************************************************************************)
ToolNames == {"get_current_weather", "get_weather_forecast", "search_location"}
UnknownToolText(name) == ErrorText(Msg("Unknown tool", 0, name))

UnknownToolEndsAtOnce ==
    [][\A p \in Slots :
        (call'[p] # call[p] /\ call'[p].pc # "idle" /\ call'[p].name \notin ToolNames) =>
            /\ invoked' = invoked + 1
            /\ call'[p].pc = "done"
            /\ OneTextBlock(call'[p])
            /\ ReturnedText(call'[p]) = UnknownToolText(call'[p].name)
            /\ call'[p].geocodeRequests = 0
            /\ call'[p].weatherRequests = 0
            /\ call'[p].lookupTime = -1
            /\ call'[p].lat = None /\ call'[p].lon = None
            /\ cache' = cache
            /\ stores' = stores]_vars

\* a call of an unknown tool has ended in the error text with the cache
\* still filled by the call before it
UnknownToolEndedWithFilledCache ==
    \E p \in Slots :
        /\ call[p].pc = "done"
        /\ call[p].name = "get_weather"
        /\ ReturnedText(call[p]) = UnknownToolText("get_weather")
        /\ Len(stores) = 1
        /\ MakeKey(stores[1].lat, stores[1].lon, stores[1].type) \in DOMAIN cache


(***************************************************************************)
(* C20.  The form of the text for an error that the resolver, the upstream *)
(* client or the formatter raises in a weather call.                       *)
(***************************************************************************)
\* the exception the call caught was raised by the resolver (the geocoder),
\* by the upstream client or, the payload being there, by the formatter
RaisedByResolver(c) == c.geocoded.raised # None /\ c.caught = c.geocoded.raised
RaisedByClient(c) == c.provided.raised # None /\ c.caught = c.provided.raised
RaisedByFormatter(c) == c.provided.value # None /\ c.caught # None
IsTimeout(e) == e.type = "TimeoutError"

\* C20 as claimed: any error raised by the resolver, the upstream client or
\* the formatter in a get_current_weather / get_weather_forecast call is
\* returned as one text block of the classified form "Error: <description>"
\* and of no other form.  (Timeouts, which C10 and C13 are about, are left
\* aside here.)
ErrorsHaveClassifiedForm ==
    \A p \in Slots :
        LET c == call[p] IN
        (/\ IsWeatherCall(c)
         /\ RaisedByResolver(c) \/ RaisedByClient(c) \/ RaisedByFormatter(c)
         /\ ~IsTimeout(c.caught[1])) =>
            /\ c.pc = "done"
            /\ OneTextBlock(c)
            /\ ReturnedText(c) = ErrorText(c.caught[1].msg)

\* C20 as amended: any such error is returned as one text block; it has the
\* classified form "Error: <description>" when the error is a ValueError (as
\* the errors of the client's taxonomy are) and the generic form "An error
\* occurred: <description>" when it is any other exception.
ErrorsHaveTheFormOfTheirType ==
    \A p \in Slots :
        LET c == call[p] IN
        (/\ IsWeatherCall(c)
         /\ RaisedByResolver(c) \/ RaisedByClient(c) \/ RaisedByFormatter(c)) =>
            /\ c.pc = "done"
            /\ OneTextBlock(c)
            /\ ReturnedText(c) = IF IsValueError(c.caught[1])
                                 THEN ErrorText(c.caught[1].msg)
                                 ELSE UnexpectedText(c.caught[1].msg)
            /\ c.geocoded.raised # None => RaisedByResolver(c)
            /\ c.provided.raised # None => RaisedByClient(c)

\* the formatter has raised a TypeError on the payload and the call has
\* returned the generic text
FormatterErrorReturnedAsGeneric ==
    \E p \in Slots :
        /\ IsWeatherCall(call[p])
        /\ call[p].pc = "done"
        /\ RaisedByFormatter(call[p])
        /\ call[p].caught[1].type = "TypeError"
        /\ ReturnedText(call[p]).form = "Unexpected"


(***************************************************************************)
(* C21.  The form of the text for an exception outside the taxonomy of     *)
(* errors.                                                                 *)
(***************************************************************************)
\* the descriptions of the classified errors: invalid arguments, the
\* upstream status errors, the network error and the unknown tool
TaxonomyTexts ==
    {"could not convert string to float", "invalid literal for int()",
     "Invalid request parameters", "Rate limit exceeded. Try again later",
     "Open-Meteo server error", "API error", "Network error", "Unknown tool"}
InTaxonomy(e) == e.type = "ValueError" /\ e.msg.text \in TaxonomyTexts

\* C21: an exception outside the taxonomy of classified errors that is raised
\* inside a tool call is caught by call_tool and returned as the generic text
\* "An error occurred: <description>", never as the classified text "Error:
\* <description>", and it does not leave call_tool; a classified error is
\* never returned as the generic text.
UnclassifiedErrorsAreGeneric ==
    \A p \in Slots :
        LET c == call[p] IN
        /\ c.pc = "raised" => Cancelled(c)
        /\ c.caught # None =>
            /\ c.pc = "done"
            /\ OneTextBlock(c)
            /\ ReturnedText(c) = IF InTaxonomy(c.caught[1])
                                 THEN ErrorText(c.caught[1].msg)
                                 ELSE UnexpectedText(c.caught[1].msg)


(***************************************************************************)
(* C22.  Cache operations under interleaved calls.  A call runs from one   *)
(* await to the next in one step of the event loop; the cache methods are  *)
(* synchronous, so each is inside one such step.                           *)
(***************************************************************************)
\* the key of the weather call c
CallKey(c) == MakeKey(c.lat[1], c.lon[1], CallCacheType(c))

FetchedAndStored(c) ==
    IsWeatherCall(c) /\ c.pc = "done" /\ c.weatherRequests = 1 /\ c.caught = None

\* the text the formatter makes of the payload that call c was given
OwnText(c) ==
    IF c.name = "get_current_weather"
    THEN FormatCurrentWeather(c.provided.value[1]).value[1]
    ELSE FormatForecast(c.provided.value[1], c.days).value[1]

\* C23: requests are not coalesced.  Once two calls for the same key have
\* each fetched and returned, in whatever interleaving, each has returned the
\* formatted text of its own fetch, and the cache holds one entry for the key,
\* with the value and the timestamp of the later of the stores.  (That both
\* can miss and both fetch is what the witness shows.)
BothFetchLaterStoreWins ==
    \A p, q \in Slots :
        (/\ p # q
         /\ FetchedAndStored(call[p]) /\ FetchedAndStored(call[q])
         /\ CallKey(call[p]) = CallKey(call[q])) =>
            /\ ReturnedText(call[p]) = OwnText(call[p])
            /\ ReturnedText(call[p]).data = call[p].answer.data
            /\ Len(stores) >= 2
            /\ CallKey(call[p]) \in DOMAIN cache
            /\ cache[CallKey(call[p])] =
                  [timestamp |-> stores[Len(stores)].time,
                   value |-> stores[Len(stores)].text]
            /\ stores[Len(stores)].text \in {OwnText(call[p]), OwnText(call[q])}

\* two calls for one key have both missed before either stored, both have
\* fetched, they have returned different texts and the cache holds the text of
\* the second store
BothMissedBothFetched ==
    /\ FetchedAndStored(call[1]) /\ FetchedAndStored(call[2])
    /\ CallKey(call[1]) = CallKey(call[2])
    /\ call[1].storesAtLookup = 0 /\ call[2].storesAtLookup = 0
    /\ Len(stores) = 2
    /\ ReturnedText(call[1]) # ReturnedText(call[2])
    /\ cache[CallKey(call[1])].value = stores[2].text
    /\ stores[1].text # stores[2].text


(***************************************************************************)
(* C24.  Every call ends, provided every request it awaits is answered or  *)
(* times out.                                                              *)
(***************************************************************************)
\* call c is at an await of call_tool
Waiting(c) == c.pc \in {"geocoding", "searching", "fetching"}

\* C24: every call that has started and is waiting for the geocoding or the
\* forecast API eventually ends, by returning its content block or by being
\* cancelled, whatever the other call does; it never waits for the cache or
\* for the other call.
EveryCallEnds == \A p \in Slots : Waiting(call[p]) ~> Ended(call[p])

\* both calls have waited for the geocoding API and then for the forecast
\* API, and both have returned
BothWaitedTwiceAndReturned ==
    \A p \in Slots :
        /\ call[p].pc = "done"
        /\ call[p].geocodeRequests = 1
        /\ call[p].weatherRequests = 1


(***************************************************************************)
(* C25.  A call that is cancelled at an await.                             *)
(***************************************************************************)
\* C25: a call that is cancelled while it waits for the geocoding or the
\* forecast API returns no content block, neither a result nor an error
\* text: the cancellation passes the except clauses of call_tool and leaves
\* it.  The cancelling step and the cancelled call afterwards write nothing
\* to the cache.
CancelledCallReturnsNothing ==
    [][\A p \in Slots :
         LET c == call'[p] IN
         /\ c.caught # None => c.caught[1].type # "CancelledError"
         /\ c.pc = "raised" =>
               /\ Cancelled(c)
               /\ c.result = <<>>
               /\ c.caught = None
         /\ (c.pc = "raised" /\ call[p].pc # "raised") =>
               /\ Waiting(call[p])
               /\ c = [call[p] EXCEPT !.pc = "raised", !.raised = c.raised]
               /\ cache' = cache /\ stores' = stores
         /\ (call[p].pc = "raised" /\ c # call[p]) => invoked' = invoked + 1
         /\ (call[p].pc = "raised" /\ c = call[p] /\ cache' # cache) =>
               \E q \in Slots \ {p} : call'[q] # call[q]
      ]_vars

\* a call was cancelled while it waited for the forecast API, after an
\* earlier call had filled the cache; the other call has stored since
CancelledWhileFetching ==
    \E p \in Slots :
        /\ Cancelled(call[p])
        /\ call[p].weatherRequests = 1
        /\ call[p].storesAtLookup = 1
        /\ Len(stores) = 2


(***************************************************************************)
(* C26.  The range of the coordinates that call_tool uses.                 *)
(***************************************************************************)
\* C26: every coordinate that call_tool uses for a cache lookup, a request
\* to the forecast API or a cache store has its latitude in [-90, 90] and its
\* longitude in [-180, 180], whether it comes from the lat and lon arguments,
\* from a "lat,lon" string, from the geocoder or from the default.
CoordinatesInRange ==
    LET InRange(lat, lon) ==
            /\ lat \in (-90 * UnitsPerDegree)..(90 * UnitsPerDegree)
            /\ lon \in (-180 * UnitsPerDegree)..(180 * UnitsPerDegree)
    IN  /\ \A p \in Slots :
              /\ LookedUp(call[p]) => InRange(call[p].lat[1], call[p].lon[1])
              /\ call[p].weatherRequests > 0 =>
                    InRange(call[p].sent.latitude, call[p].sent.longitude)
        /\ \A i \in 1..Len(stores) : InRange(stores[i].lat, stores[i].lon)


(***************************************************************************)
(* C27.  The start of the server without an API key.                       *)
(***************************************************************************)
\* C27: server_remote, whose provider (Open-Meteo) needs no API key, starts
\* when no API key is configured: with the other settings valid or unset,
\* the import ends with the components built, without YANDEX_API_KEY.
StartupSucceedsWithoutApiKey ==
    (/\ startup.pc # "importing"
     /\ startup.env.YANDEX_API_KEY \in {"unset", ""}
     /\ startup.env.CACHE_TTL \in {"unset", "600"}
     /\ startup.env.REQUEST_TIMEOUT \in {"unset", "10"}
     /\ startup.env.LOG_LEVEL \in {"unset", "DEBUG"}) =>
        /\ startup.pc = "running"
        /\ startup.error = None


(***************************************************************************)
(* C28.  When call_tool writes to the cache.                               *)
(***************************************************************************)
\* C28: with one call at a time, the cache changes only in two kinds of step.
\* A store: the call had missed at its lookup, the forecast API has given it
\* a payload and the formatter a text, and the entry of its key becomes that
\* text at the present time.  An eviction: the lookup of the call removes the
\* stale entry under its key.  A step that ends a call in a cache hit or in
\* any error leaves the cache as it is.
CacheWrittenOnlyByCompletedMiss ==
    [][LET Stored(p) ==
               /\ call[p].pc = "fetching" /\ call[p].weatherRequests = 1
               /\ CallKey(call[p]) \notin DOMAIN cache
               /\ call'[p].pc = "done" /\ call'[p].caught = None
               /\ call'[p].provided.value # None
               /\ IsWeatherText(ReturnedText(call'[p]))
               /\ cache' = SetCache(cache, now, call[p].lat[1], call[p].lon[1],
                                    ReturnedText(call'[p]), CallCacheType(call[p]))
           Evicted(p) ==
               /\ call[p].pc # "fetching" /\ call'[p].pc = "fetching"
               /\ call'[p].lookupTime = now
               /\ CallKey(call'[p]) \in DOMAIN cache
               /\ IsStale(cache[CallKey(call'[p])].timestamp, now)
               /\ cache' = Without(cache, CallKey(call'[p]))
       IN  /\ cache' # cache => \E p \in Slots : Stored(p) \/ Evicted(p)
           /\ \A p \in Slots :
                (/\ call'[p] # call[p]
                 /\ \/ call'[p].pc = "done" /\ call'[p].weatherRequests = 0
                    \/ call'[p].caught # None
                    \/ call'[p].pc = "raised") => cache' = cache
      ]_vars

\* a call has evicted the stale entry of an earlier call at its lookup and
\* has then ended in an error of the forecast API: the cache is left empty
FailedCallLeftOnlyEviction ==
    /\ call[1].pc = "done"
    /\ call[1].caught # None
    /\ call[1].weatherRequests = 1
    /\ Len(stores) = 1
    /\ cache = EmptyCache


(***************************************************************************)
(* C29.  What the cache holds.  A payload carries the request it answers.  *)
(***************************************************************************)
\* C29: in every state, every value of the cache is the text that the
\* formatter makes of a payload fetched for the key of its entry: for the
\* same coordinate to four decimals, the same kind and, for a forecast, the
\* same number of days.  No entry holds a payload, and no entry of a current
\* key holds the text of a forecast or the reverse.
CacheHoldsTextOfOwnKey ==
    \A k \in DOMAIN cache :
        LET text == cache[k].value
            request == text.data.request
        IN  /\ text.form \in {"current", "forecast"}
            /\ request.kind = (IF text.form = "current" THEN "current" ELSE "daily")
            /\ text.form = "current" =>
                  /\ k = MakeKey(request.latitude, request.longitude, "current")
                  /\ Returned(text) = FormatCurrentWeather(text.data)
            /\ text.form = "forecast" =>
                  /\ k = MakeKey(request.latitude, request.longitude,
                                 ForecastCacheType(request.forecast_days))
                  /\ text.days = request.forecast_days
                  /\ Returned(text) = FormatForecast(text.data, text.days)
            /\ (k.type = "current") = (text.form = "current")

\* the cache holds the current weather and a forecast of 16 days for one
\* coordinate, each under its own key
CacheHoldsCurrentAndForecast ==
    /\ Cardinality(DOMAIN cache) = 2
    /\ \E k1, k2 \in DOMAIN cache :
          /\ k1.type = "current" /\ k2.type = "forecast_16days"
          /\ k1.lat = k2.lat /\ k1.lon = k2.lon
          /\ cache[k2].value.days = 16


(***************************************************************************)
(* C30.  The order of the steps of one weather call.                       *)
(***************************************************************************)
\* C30: in one get_current_weather / get_weather_forecast call the steps are
\* resolve, cache lookup, on a miss the request to the forecast API, format,
\* cache store, respond.  The call has looked up before it sends its request;
\* while it resolves it has neither looked up nor sent; it stores in the step
\* in which it has formatted the payload and in which it responds, and does
\* nothing after; and the lookup, the request and the store use the one
\* coordinate that the resolver gave at the start.
StepsInOrder ==
    [][/\ \A p \in Slots :
            LET b == call[p]
                c == call'[p]
            IN  /\ c.pc = "geocoding" =>
                      c.lookupTime = -1 /\ c.weatherRequests = 0 /\ c.result = <<>>
                /\ c.weatherRequests > 0 =>
                      /\ c.lookupTime >= 0
                      /\ c.sent.latitude = c.lat[1] /\ c.sent.longitude = c.lon[1]
                /\ (LookedUp(c) /\ c.geocoded.value # None /\ c.geocoded.value[1] # None) =>
                      /\ c.lat = c.geocoded.value[1][1].lat
                      /\ c.lon = c.geocoded.value[1][1].lon
                /\ (b.pc = "fetching" /\ c # b) =>
                      /\ c.lat = b.lat /\ c.lon = b.lon /\ c.sent = b.sent
                      /\ c.lookupTime = b.lookupTime
                      /\ Ended(c)
                /\ c.result # <<>> => c.pc = "done"
                /\ (b.pc = "done" /\ c # b) => invoked' = invoked + 1
       /\ stores' # stores =>
            \E p \in Slots :
                /\ call[p].pc = "fetching" /\ call'[p].pc = "done"
                /\ call'[p].provided.value # None
                /\ ReturnedText(call'[p]) = OwnText(call'[p])
                /\ stores' = Append(stores,
                                    [lat |-> call[p].lat[1], lon |-> call[p].lon[1],
                                     type |-> CallCacheType(call[p]),
                                     text |-> ReturnedText(call'[p]), time |-> now])
                /\ cache' = SetCache(cache, now, call[p].sent.latitude,
                                     call[p].sent.longitude,
                                     ReturnedText(call'[p]), CallCacheType(call[p]))
      ]_vars

\* a call has resolved a place name through the geocoder, has looked up,
\* fetched and stored at the coordinate of the match, and has responded
ResolvedFetchedStoredAtMatch ==
    \E p \in Slots :
        LET c == call[p] IN
        /\ c.pc = "done" /\ c.caught = None
        /\ c.geocodeRequests = 1 /\ c.weatherRequests = 1
        /\ c.geocoded.value # None /\ c.geocoded.value[1] # None
        /\ c.lat = c.geocoded.value[1][1].lat /\ c.lat # None
        /\ c.sent.latitude = c.lat[1]
        /\ Len(stores) > 0
        /\ stores[Len(stores)].lat = c.lat[1]
        /\ <<c.lat, c.lon>> # DefaultCoordinate


(***************************************************************************)
(* C31.  Entries of different kinds and day counts at one coordinate.      *)
(***************************************************************************)
\* the keys whose entry differs between the mappings a and b
ChangedKeys(a, b) ==
    { k \in DOMAIN a \cup DOMAIN b :
        k \notin DOMAIN a \/ k \notin DOMAIN b \/ a[k] # b[k] }

\* C31: at one coordinate the entries of the current weather and of the
\* forecasts of each clamped number of days are independent.  A step of a
\* call changes the entry of its own kind and days and no other; a call is
\* answered with a text of its own kind and its own clamped days; and a
\* forecast call whose days clamp to the days of a fresh entry (30 to 16, 0 to
\* 1) is answered from that entry without a request.
VariantsAreIndependent ==
    [][\A p \in Slots :
         LET b == call[p]
             c == call'[p]
             OwnEntry(k, e) ==
                 IF c.name = "get_current_weather"
                 THEN k.type = "current" /\ e.value.form = "current"
                 ELSE k.type # "current" /\ e.value.form = "forecast"
                      /\ e.value.days = c.days
         IN  c # b =>
             /\ Cardinality(ChangedKeys(cache, cache')) <= 1
             /\ \A k \in ChangedKeys(cache, cache') :
                   OwnEntry(k, IF k \in DOMAIN cache' THEN cache'[k] ELSE cache[k])
             /\ (c.pc = "done" /\ IsWeatherText(ReturnedText(c))) =>
                   /\ ReturnedText(c).form =
                        (IF c.name = "get_current_weather" THEN "current" ELSE "forecast")
                   /\ c.name = "get_weather_forecast" => ReturnedText(c).days = c.days
             /\ (c.name = "get_weather_forecast" /\ b.pc # "fetching" /\ c.lookupTime >= 0) =>
                   \A k \in DOMAIN cache :
                       (/\ k.type # "current"
                        /\ k.lat = Format4f(c.lat[1]) /\ k.lon = Format4f(c.lon[1])
                        /\ cache[k].value.days = c.days
                        /\ ~IsStale(cache[k].timestamp, now)) =>
                           /\ c.pc = "done" /\ c.weatherRequests = 0
                           /\ ReturnedText(c) = cache[k].value
      ]_vars

\* the cache holds the current weather and the forecast of 16 days, and a
\* call for 30 days has been answered from the entry of 16 days
ThirtyDaysAnsweredFromSixteen ==
    /\ call[1].pc = "done"
    /\ call[1].arguments = Args3("lat", JNum(LatA), "lon", JNum(LonA), "days", JNum(30))
    /\ call[1].weatherRequests = 0
    /\ ReturnedText(call[1]).days = 16
    /\ Len(stores) = 2
    /\ stores[1].type = "forecast_16days" /\ stores[2].type = "current"
    /\ Cardinality(DOMAIN cache) = 2


(***************************************************************************)
(* C32.  The cache that is swept and the cache that is not.                *)
(***************************************************************************)
\* C32: for any sequence of sets, gets and clock advances, a cache on which
\* cleanup is also called at arbitrary points and a cache on which it never
\* is return the same for every get: the same value, or nothing.
CleanupChangesNoGet ==
    [][cacheOp'.op = "get" =>
          cacheOp'.ret = GetResult(lazy, now, cacheOp'.lat, cacheOp'.lon, cacheOp'.type)
      ]_vars

\* a sweep has removed a stale entry that the other cache still holds, and a
\* get of another key has returned its value
GetHitAfterSweep ==
    /\ cacheOp.op = "get"
    /\ cacheOp.ret # None
    /\ Cardinality(DOMAIN lazy) = 2
    /\ Cardinality(DOMAIN cache) = 1


(***************************************************************************)
(* C33.  An invalid argument and the work done before it is rejected.      *)
(***************************************************************************)
\* the days argument of a forecast call is given and int() does not take it
InvalidDays(c) ==
    /\ c.name = "get_weather_forecast"
    /\ "days" \in DOMAIN c.arguments
    /\ PyInt(c.arguments["days"]).raised # None

\* lat and lon are both given and float() does not take one of them
InvalidLatLon(c) ==
    /\ IsWeatherCall(c)
    /\ "lat" \in DOMAIN c.arguments /\ "lon" \in DOMAIN c.arguments
    /\ \/ PyFloat(c.arguments["lat"]).raised # None
       \/ PyFloat(c.arguments["lon"]).raised # None

\* C33: a weather call with a days value that int() does not take, or with a
\* lat or lon that float() does not take, is rejected before any other work:
\* it has ended in one error text block and has issued no geocoding request,
\* no cache lookup and no request to the forecast API.
InvalidArgumentRejectedFirst ==
    \A p \in Slots :
        LET c == call[p]
        IN  (c.pc # "idle" /\ (InvalidDays(c) \/ InvalidLatLon(c))) =>
                /\ c.pc = "done"
                /\ OneTextBlock(c)
                /\ ReturnedText(c).form \in {"Error", "Unexpected"}
                /\ c.geocodeRequests = 0
                /\ c.lookupTime = -1
                /\ c.weatherRequests = 0


(***************************************************************************)
(* C34.  The age of what a cache hit returns.                              *)
(***************************************************************************)
\* the stores made under the key of c before its lookup
StoresBeforeLookup(c) ==
    { i \in 1..c.storesAtLookup :
        MakeKey(stores[i].lat, stores[i].lon, stores[i].type)
          = MakeKey(c.lat[1], c.lon[1], CallCacheType(c)) }

\* the entry under the key of c had been stored more than the ttl before the
\* lookup of c
LookedUpStale(c) ==
    /\ LookedUp(c)
    /\ StoresBeforeLookup(c) # {}
    /\ c.lookupTime - stores[LastStoreBeforeLookup(c)].time > CACHE_TTL

\* C34: a call answered from the cache returns the text of an entry stored at
\* most CACHE_TTL before its lookup; a call whose lookup finds the entry of
\* its key older than CACHE_TTL sends a request to the forecast API and, when
\* that succeeds, stores its text under the key with the time of the store;
\* every entry of the cache carries the time and the text of the last store
\* under its key.
NoHitOlderThanTtl ==
    /\ \A p \in Slots :
          LET c == call[p]
          IN  /\ (LookedUp(c) /\ c.pc = "done" /\ c.weatherRequests = 0) =>
                    /\ StoresBeforeLookup(c) # {}
                    /\ c.lookupTime - stores[LastStoreBeforeLookup(c)].time <= CACHE_TTL
                    /\ ReturnedText(c) = stores[LastStoreBeforeLookup(c)].text
              /\ LookedUpStale(c) =>
                    /\ c.weatherRequests >= 1
                    /\ (c.pc = "done" /\ IsWeatherText(ReturnedText(c))) =>
                          \E j \in (c.storesAtLookup + 1)..Len(stores) :
                              /\ stores[j].text = ReturnedText(c)
                              /\ stores[j].time >= c.lookupTime
                              /\ MakeKey(stores[j].lat, stores[j].lon, stores[j].type)
                                   = MakeKey(c.lat[1], c.lon[1], CallCacheType(c))
    /\ \A key \in DOMAIN cache :
          LET under == { i \in 1..Len(stores) :
                           MakeKey(stores[i].lat, stores[i].lon, stores[i].type) = key }
          IN  /\ under # {}
              /\ LET last == CHOOSE i \in under : \A j \in under : j <= i
                 IN  /\ cache[key].timestamp = stores[last].time
                     /\ cache[key].value = stores[last].text

\* a call found the entry of its key older than the ttl, fetched the weather
\* again and left the entry with the time of its store
StaleEntryRefetchedAndReplaced ==
    /\ LookedUpStale(call[1])
    /\ call[1].pc = "done"
    /\ call[1].weatherRequests = 1
    /\ Len(stores) = call[1].storesAtLookup + 1
    /\ LET key == MakeKey(call[1].lat[1], call[1].lon[1], CallCacheType(call[1]))
       IN  /\ key \in DOMAIN cache
           /\ cache[key].timestamp = stores[Len(stores)].time
           /\ cache[key].timestamp >= call[1].lookupTime
           /\ cache[key].value = ReturnedText(call[1])


(***************************************************************************)
(* C35.  A place name that the geocoder does not resolve.                  *)
(***************************************************************************)
\* the location of the weather call is a place name and the geocoder has
\* answered with no match or with a failure: an empty or missing result
\* set, a status other than 200, a transport failure or a timeout; the call
\* has not been cancelled
Unresolved(c) ==
    /\ IsWeatherCall(c)
    /\ ~HasBoth(c.arguments)
    /\ ParseLocation(LocationOf(c)).to = "geocode"
    /\ GeocodeAnsweredCall(c)
    /\ ListedOutcome(c.geoAnswer)
    /\ ~IsMatch(c.geoAnswer)
    /\ ~Cancelled(c)

\* what a call without a location does: it looks up the entry of the default
\* coordinate and returns its text, or asks the forecast API for the default
\* coordinate and, on an answer of 200 with a payload, returns the weather
\* text and leaves it in the entry of the default coordinate
ActsOnDefaultCoordinate(c) ==
    /\ <<c.lat, c.lon>> = DefaultCoordinate
    /\ c.geocoded.raised = None
    /\ LookedUp(c)
    /\ c.pc \in {"fetching", "done"}
    /\ c.weatherRequests = 0 =>
          /\ c.pc = "done"
          /\ OneTextBlock(c)
          /\ IsWeatherText(ReturnedText(c))
          /\ StoresBeforeLookup(c) # {}
          /\ ReturnedText(c) = stores[LastStoreBeforeLookup(c)].text
    /\ c.weatherRequests >= 1 =>
          /\ c.sent.latitude = DefaultCoordinate[1][1]
          /\ c.sent.longitude = DefaultCoordinate[2][1]
    /\ (c.pc = "done" /\ c.weatherRequests >= 1
        /\ c.answer.transport = "ok" /\ c.answer.status = 200) =>
          /\ OneTextBlock(c)
          /\ IsWeatherText(ReturnedText(c))
          /\ CallKey(c) \in DOMAIN cache
          /\ cache[CallKey(c)].value = ReturnedText(c)

\* C35: a weather call whose location is a place name that the geocoder does
\* not resolve (no match, or a failure of the geocoding request) acts as a
\* call without a location: it returns the weather of the default coordinate
\* in a normal text block and reads and fills the cache entry of the default
\* coordinate.
UnresolvedNameActsAsNoLocation ==
    \A p \in Slots : Unresolved(call[p]) => ActsOnDefaultCoordinate(call[p])


(***************************************************************************)
(* C36.  What a get changes in the cache.                                  *)
(***************************************************************************)
\* mapping after is mapping before, but for the entry of key when that entry
\* is older than the ttl at time t: then it is before without that one entry
GetFrame(before, after, key, t) ==
    IF key \in DOMAIN before /\ t - before[key].timestamp > CACHE_TTL
    THEN /\ DOMAIN after = DOMAIN before \ {key}
         /\ \A k \in DOMAIN after : after[k] = before[k]
    ELSE after = before

\* C36: a get changes the cache only by removing the entry of the key it
\* looks up when that entry is stale: a get of an absent key or of a fresh
\* entry leaves the whole mapping as it was, timestamps included, and a get
\* that removes a stale entry leaves every other entry, stale ones too, as it
\* was.
GetOnlyEvictsItsStaleKey ==
    [][cacheOp'.op = "get" =>
          LET key == MakeKey(cacheOp'.lat, cacheOp'.lon, cacheOp'.type)
          IN  /\ GetFrame(cache, cache', key, now)
              /\ GetFrame(lazy, lazy', key, now)
      ]_vars

\* a get has removed the stale entry of its key and has left the other
\* entry, which is stale too, where it was
GetEvictedOneOfTwoStale ==
    /\ cacheOp.op = "get"
    /\ cacheOp.had
    /\ cacheOp.removed = 1
    /\ MakeKey(cacheOp.lat, cacheOp.lon, cacheOp.type) \notin DOMAIN lazy
    /\ Cardinality(DOMAIN lazy) = 1
    /\ \A k \in DOMAIN lazy : now - lazy[k].timestamp > CACHE_TTL


(***************************************************************************)
(* C37.  The truth value of what the cache holds.                          *)
(***************************************************************************)
\* at the lookup of c the entry of its key was at most CACHE_TTL old
LookedUpFresh(c) ==
    /\ LookedUp(c)
    /\ StoresBeforeLookup(c) # {}
    /\ c.lookupTime - stores[LastStoreBeforeLookup(c)].time <= CACHE_TTL

\* C37: every text that call_tool stores in the cache is non-empty, so the
\* test "if cached:" takes a lookup for a hit exactly when the cache holds a
\* fresh entry for the key: a call that finds a fresh entry returns its text
\* and sends no request to the forecast API, and a call that finds none
\* sends one.
FreshEntryIsAlwaysAHit ==
    /\ \A i \in 1..Len(stores) : stores[i].text # BlankText
    /\ \A key \in DOMAIN cache : cache[key].value # BlankText
    /\ \A p \in Slots :
          LET c == call[p]
          IN  (LookedUp(c) /\ ~Cancelled(c)) =>
                  IF LookedUpFresh(c)
                  THEN /\ c.weatherRequests = 0
                       /\ c.pc = "done"
                       /\ ReturnedText(c) = stores[LastStoreBeforeLookup(c)].text
                  ELSE c.weatherRequests >= 1

\* a forecast call has found a fresh entry and has returned its text without
\* a request
ForecastAnsweredFromFreshEntry ==
    /\ LookedUpFresh(call[1])
    /\ call[1].name = "get_weather_forecast"
    /\ call[1].pc = "done"
    /\ call[1].weatherRequests = 0
    /\ ReturnedText(call[1]).form = "forecast"
    /\ ReturnedText(call[1]) = cache[CallKey(call[1])].value

====
